---- MODULE Spec2Model ----
(***************************************************************************)
(* Battle resolution engine of the unciv python port: city and unit        *)
(* combatants, the HP-exchange loop, unit capture, the attack orchestrator *)
(* and the nuclear strike.  Each sub-system has its own specification over *)
(* its own group of variables; the variables of the other groups stay at   *)
(* their idle values.                                                      *)
(***************************************************************************)
EXTENDS Integers, Sequences, FiniteSets, TLC

VARIABLES
    cityHealth,      \* City.health of the city behind a CityCombatant
    cityLastDamage,  \* argument of the last CityCombatant.take_damage call (-1: none yet)
    exPc,            \* position inside Battle.take_damage: "idle", "start", "loop", "done"
    exAttacker,      \* the attacker combatant of Battle.take_damage
    exDefender,      \* the defender combatant of Battle.take_damage
    exPotDef,        \* potential_damage_to_defender
    exPotAtt,        \* potential_damage_to_attacker
    exHist,          \* bookkeeping of the call: initial budgets, iterations, how it ended
    capIn,           \* what a try_capture_military_unit call reads: combatants, uniques, tile
    capGold,         \* gold of the attacker's civilization
    capSpawned,      \* units the attacker's civilization received from captures
    capCall,         \* the last BattleUnitCapture.try_capture_military_unit call
    bIn,             \* the world before a Battle.attack / Battle.move_and_attack call
    bSt,             \* the world now: both sides, treasury, counters, value returned
    bPc,             \* "idle", "ready" (call not made yet), "done", "intercepted"
    nkIn,            \* the world before a Nuke.may_use_nuke / Nuke.NUKE call
    nkSt,            \* the world now: the nuke, the civilizations, the tiles in range
    nkPc,            \* "idle", "ready" (call not made yet), "done"
    rnd,              \* the global random stream, the turn and tile hashes, the rolls evaluated
    dmg,             \* one strength computation of BattleDamage: inputs, results, stage
    cq,              \* a city under conquest: owner, flags, the calls made on it, the last target query
    bm,              \* the BarbarianManager: its encampments, the camp tiles, the last call
    pm               \* a CityPopulationManager: population, food_stored, the city's settings, the last call

cityVars == <<cityHealth, cityLastDamage>>
exVars == <<exPc, exAttacker, exDefender, exPotDef, exPotAtt, exHist>>
capVars == <<capIn, capGold, capSpawned, capCall>>

bVars == <<bIn, bSt, bPc>>
nkVars == <<nkIn, nkSt, nkPc>>

vars == <<cityVars, exVars, capVars, bVars, nkVars, rnd, dmg, cq, bm, pm>>

\* the variables outside each group
notCity == <<exVars, capVars, bVars, nkVars, rnd, dmg, cq, bm, pm>>
notEx == <<cityVars, capVars, bVars, nkVars, rnd, dmg, cq, bm, pm>>
notCap == <<cityVars, exVars, bVars, nkVars, rnd, dmg, cq, bm, pm>>
notBattle == <<cityVars, exVars, capVars, nkVars, rnd, dmg, cq, bm, pm>>
notNuke == <<cityVars, exVars, capVars, bVars, rnd, dmg, cq, bm, pm>>
notRnd == <<cityVars, exVars, capVars, bVars, nkVars, dmg, cq, bm, pm>>
notDmg == <<cityVars, exVars, capVars, bVars, nkVars, rnd, cq, bm, pm>>
notCq == <<cityVars, exVars, capVars, bVars, nkVars, rnd, dmg, bm, pm>>
notBm == <<cityVars, exVars, capVars, bVars, nkVars, rnd, dmg, cq, pm>>
notPm == <<cityVars, exVars, capVars, bVars, nkVars, rnd, dmg, cq, bm>>

(***************************************************************************)
(* Bounds of the model                                                     *)
(***************************************************************************)
MaxCityHealth == 20     \* largest city health drawn
MaxDamage == 6          \* largest damage amount / damage budget drawn
MaxUnitHealth == 3      \* largest unit health drawn (the scale of 100 HP)
MaxStrength == 2        \* largest attacking / defending strength drawn
MaxSeedPart == 2        \* largest turn number and tile-position hash drawn
MaxGoldParam == 2       \* largest gold amount of a unique
MaxBattleDamage == 2    \* largest damage budget / interception damage of a whole attack
MaxMovement == 2        \* largest number of movement points drawn

Max(a, b) == IF a >= b THEN a ELSE b
Min(a, b) == IF a <= b THEN a ELSE b

(***************************************************************************)
(* CityCombatant                                                           *)
(***************************************************************************)
\* CityCombatant.take_damage without the floor (the mutation of CityTakeDamage)
CityTakeDamageNoFloor(health, damage) == health - damage

\* CityCombatant.take_damage: health -= damage; if health < 1: health = 1
CityTakeDamage(health, damage) ==
    IF health - damage < 1 THEN 1 ELSE health - damage

\* CityCombatant.is_defeated
CityIsDefeated(health) == health = 1

(***************************************************************************)
(* Combatants: ICombatant, MapUnitCombatant, CityCombatant                 *)
(***************************************************************************)
\* the combat-relevant kinds of base unit: BaseUnit.is_ranged() and
\* BaseUnit.is_air_unit() are independent ruleset data, MapUnit.is_civilian()
CityCombatant(health) ==
    [isCity |-> TRUE, ranged |-> TRUE, air |-> FALSE, civilian |-> FALSE, health |-> health]

MapUnitCombatant(ranged, air, civilian, health) ==
    [isCity |-> FALSE, ranged |-> ranged, air |-> air, civilian |-> civilian, health |-> health]

\* ICombatant.is_ranged: a city is ranged, a unit as its base unit says
IsRanged(c) == IF c.isCity THEN TRUE ELSE c.ranged

\* ICombatant.is_melee
IsMelee(c) == ~IsRanged(c)

\* ICombatant.is_air_unit
IsAirUnit(c) == IF c.isCity THEN FALSE ELSE c.air

\* ICombatant.is_civilian
IsCivilian(c) == IF c.isCity THEN FALSE ELSE c.civilian

\* MapUnitCombatant.take_damage on the unit's health (never below 0)
UnitTakeDamage(health, damage) == Max(0, health - damage)

\* ICombatant.take_damage, by variant
TakeDamage(c, damage) ==
    [c EXCEPT !.health = IF c.isCity THEN CityTakeDamage(c.health, damage)
                                     ELSE UnitTakeDamage(c.health, damage)]

\* ICombatant.is_defeated: a city at exactly 1 HP, a unit at 0 HP or less
IsDefeated(c) == IF c.isCity THEN CityIsDefeated(c.health) ELSE c.health <= 0

(***************************************************************************)
(* Idle values: the state of a sub-system that is not running              *)
(***************************************************************************)
CityIdle == cityHealth = 1 /\ cityLastDamage = -1

ExIdle ==
    /\ exPc = "idle"
    /\ exAttacker = CityCombatant(1)
    /\ exDefender = CityCombatant(1)
    /\ exPotDef = 0
    /\ exPotAtt = 0
    /\ exHist = [initDef |-> 0, initAtt |-> 0, iters |-> 0, broke |-> FALSE, path |-> "none"]

\* no try_capture_military_unit call yet
NoCaptureCall ==
    [called |-> FALSE, eligible |-> FALSE, prize |-> FALSE, encampment |-> FALSE,
     defeating |-> FALSE, spawnCalls |-> 0, placed |-> "none", civilianOnTile |-> FALSE,
     civilianCaptures |-> 0, encampmentGold |-> 0, defeatingGold |-> 0,
     result |-> FALSE]

CapIdle == capIn = 0 /\ capGold = 0 /\ capSpawned = 0 /\ capCall = NoCaptureCall

BattleIdle == bIn = 0 /\ bSt = 0 /\ bPc = "idle"

NukeIdle == nkIn = 0 /\ nkSt = 0 /\ nkPc = "idle"

\* no game running: turn 0
RndIdle == rnd = [global |-> 0, turns |-> 0, attHash |-> 0, defHash |-> 0, rolls |-> <<>>]
DmgIdle == dmg = [stage |-> "idle"]
CqIdle == cq = [stage |-> "idle"]
BmIdle == bm = [stage |-> "idle"]
PmIdle == pm = [stage |-> "idle"]

IdleButCity == ExIdle /\ CapIdle /\ BattleIdle /\ NukeIdle /\ RndIdle /\ DmgIdle /\ CqIdle /\ BmIdle /\ PmIdle
IdleButEx == CityIdle /\ CapIdle /\ BattleIdle /\ NukeIdle /\ RndIdle /\ DmgIdle /\ CqIdle /\ BmIdle /\ PmIdle
IdleButCap == CityIdle /\ ExIdle /\ BattleIdle /\ NukeIdle /\ RndIdle /\ DmgIdle /\ CqIdle /\ BmIdle /\ PmIdle
IdleButBattle == CityIdle /\ ExIdle /\ CapIdle /\ NukeIdle /\ RndIdle /\ DmgIdle /\ CqIdle /\ BmIdle /\ PmIdle
IdleButNuke == CityIdle /\ ExIdle /\ CapIdle /\ BattleIdle /\ RndIdle /\ DmgIdle /\ CqIdle /\ BmIdle /\ PmIdle
IdleButRnd == CityIdle /\ ExIdle /\ CapIdle /\ BattleIdle /\ NukeIdle /\ DmgIdle /\ CqIdle /\ BmIdle /\ PmIdle
IdleButDmg == CityIdle /\ ExIdle /\ CapIdle /\ BattleIdle /\ NukeIdle /\ RndIdle /\ CqIdle /\ BmIdle /\ PmIdle
IdleButCq == CityIdle /\ ExIdle /\ CapIdle /\ BattleIdle /\ NukeIdle /\ RndIdle /\ DmgIdle /\ BmIdle /\ PmIdle
IdleButBm == CityIdle /\ ExIdle /\ CapIdle /\ BattleIdle /\ NukeIdle /\ RndIdle /\ DmgIdle /\ CqIdle /\ PmIdle
IdleButPm == CityIdle /\ ExIdle /\ CapIdle /\ BattleIdle /\ NukeIdle /\ RndIdle /\ DmgIdle /\ CqIdle /\ BmIdle

(***************************************************************************)
(* Battle.take_damage: the damage exchange                                 *)
(***************************************************************************)
\* BattleConstants.DAMAGE_TO_CIVILIAN_UNIT, on the scale of MaxUnitHealth
DAMAGE_TO_CIVILIAN_UNIT == 2

\* calculate_damage_to_attacker without the early return for ranged attackers
\* (the mutation of CalculateDamageToAttacker)
CalculateDamageToAttackerNoRangedCase(attacker, defender, formula) ==
    IF IsCivilian(defender) THEN 0 ELSE formula

\* BattleDamage.calculate_damage_to_attacker; formula is the value of the
\* int(damage_modifier * health ratio) expression, a non-negative integer
CalculateDamageToAttacker(attacker, defender, formula) ==
    IF IsRanged(attacker) /\ ~IsAirUnit(attacker) THEN 0
    ELSE IF IsCivilian(defender) THEN 0
    ELSE formula

\* calculate_damage_to_defender without the civilian case
\* (the mutation of CalculateDamageToDefender)
CalculateDamageToDefenderNoCivilianCase(attacker, defender, formula) == formula

\* BattleDamage.calculate_damage_to_defender
CalculateDamageToDefender(attacker, defender, formula) ==
    IF IsCivilian(defender) THEN DAMAGE_TO_CIVILIAN_UNIT ELSE formula

\* which branch Battle.take_damage takes
ExchangePath(attacker, defender) ==
    IF ~defender.isCity /\ IsCivilian(defender) /\ IsMelee(attacker) THEN "capture"
    ELSE IF IsRanged(attacker) /\ ~IsAirUnit(attacker) THEN "ranged"
    ELSE "loop"

\* the loop guard with "and" for "+" (the mutation of LoopContinues)
LoopContinuesBothPositive(potDef, potAtt) == potDef > 0 /\ potAtt > 0

\* while potential_damage_to_defender + potential_damage_to_attacker > 0
LoopContinues(potDef, potAtt) == potDef + potAtt > 0

\* random.random() * (potDef + potAtt) < potDef has a solution in [0, 1)
CanHitDefender(potDef, potAtt) == potDef > 0

\* random.random() * (potDef + potAtt) >= potDef has a solution in [0, 1)
CanHitAttacker(potDef, potAtt) == potDef < potDef + potAtt

\* the attacker's budget after an iteration that forgot to reduce it
\* (the mutation of BudgetAfterHit)
BudgetAfterHitKept(budget) == budget

\* potential_damage_to_x -= 1
BudgetAfterHit(budget) == budget - 1

\* the attackers and defenders a call is drawn from
ExAttackers ==
    {CityCombatant(MaxUnitHealth)} \cup
    {MapUnitCombatant(r, a, FALSE, h) : r \in BOOLEAN, a \in BOOLEAN, h \in 1..MaxUnitHealth}

ExDefenders ==
    {CityCombatant(h) : h \in 1..MaxUnitHealth} \cup
    {MapUnitCombatant(FALSE, FALSE, c, h) : c \in BOOLEAN, h \in 1..MaxUnitHealth}

\* entry of Battle.take_damage: the two budgets are computed
InitExchange ==
    /\ IdleButEx
    /\ exPc = "start"
    /\ exAttacker \in ExAttackers
    /\ exDefender \in ExDefenders
    /\ \E fd \in 0..MaxDamage, fa \in 0..MaxDamage :
          /\ exPotDef = CalculateDamageToDefender(exAttacker, exDefender, fd)
          /\ exPotAtt = CalculateDamageToAttacker(exAttacker, exDefender, fa)
    /\ exHist = [initDef |-> exPotDef, initAtt |-> exPotAtt, iters |-> 0,
                 broke |-> FALSE, path |-> "none"]

\* if civilian defender and melee attacker: capture_civilian_unit
ExCaptureCivilian ==
    /\ exPc = "start"
    /\ ExchangePath(exAttacker, exDefender) = "capture"
    /\ exPc' = "done"
    /\ exHist' = [exHist EXCEPT !.path = "capture"]
    /\ UNCHANGED <<exAttacker, exDefender, exPotDef, exPotAtt, notEx>>

\* elif attacker ranged and not air: defender.take_damage(potential_damage_to_defender)
ExRangedHit ==
    /\ exPc = "start"
    /\ ExchangePath(exAttacker, exDefender) = "ranged"
    /\ exDefender' = TakeDamage(exDefender, exPotDef)
    /\ exPc' = "done"
    /\ exHist' = [exHist EXCEPT !.path = "ranged"]
    /\ UNCHANGED <<exAttacker, exPotDef, exPotAtt, notEx>>

\* else: enter the alternating loop
ExEnterLoop ==
    /\ exPc = "start"
    /\ ExchangePath(exAttacker, exDefender) = "loop"
    /\ exPc' = "loop"
    /\ exHist' = [exHist EXCEPT !.path = "loop"]
    /\ UNCHANGED <<exAttacker, exDefender, exPotDef, exPotAtt, notEx>>

\* one iteration through the if-branch: the defender loses 1 HP
ExHitDefender ==
    /\ exPc = "loop"
    /\ LoopContinues(exPotDef, exPotAtt)
    /\ CanHitDefender(exPotDef, exPotAtt)
    /\ exPotDef' = BudgetAfterHit(exPotDef)
    /\ exDefender' = TakeDamage(exDefender, 1)
    /\ exPc' = IF IsDefeated(exDefender') THEN "done" ELSE "loop"
    /\ exHist' = [exHist EXCEPT !.iters = @ + 1, !.broke = IsDefeated(exDefender')]
    /\ UNCHANGED <<exAttacker, exPotAtt, notEx>>

\* one iteration through the else-branch: the attacker loses 1 HP
ExHitAttacker ==
    /\ exPc = "loop"
    /\ LoopContinues(exPotDef, exPotAtt)
    /\ CanHitAttacker(exPotDef, exPotAtt)
    /\ exPotAtt' = BudgetAfterHit(exPotAtt)
    /\ exAttacker' = TakeDamage(exAttacker, 1)
    /\ exPc' = IF IsDefeated(exAttacker') THEN "done" ELSE "loop"
    /\ exHist' = [exHist EXCEPT !.iters = @ + 1, !.broke = IsDefeated(exAttacker')]
    /\ UNCHANGED <<exDefender, exPotDef, notEx>>

\* the while condition is false: the loop ends
ExLoopExit ==
    /\ exPc = "loop"
    /\ ~LoopContinues(exPotDef, exPotAtt)
    /\ exPc' = "done"
    /\ UNCHANGED <<exAttacker, exDefender, exPotDef, exPotAtt, exHist, notEx>>

NextExchange ==
    \/ ExCaptureCivilian
    \/ ExRangedHit
    \/ ExEnterLoop
    \/ ExHitDefender
    \/ ExHitAttacker
    \/ ExLoopExit

\* the call is straight-line code: it keeps running until it returns
SpecExchange == InitExchange /\ [][NextExchange]_vars /\ WF_vars(NextExchange)

(***************************************************************************)
(* BattleUnitCapture.try_capture_military_unit                             *)
(***************************************************************************)
RECURSIVE SumSeq(_)
SumSeq(q) == IF q = <<>> THEN 0 ELSE Head(q) + SumSeq(Tail(q))

\* random.Random(seed).random(): a function of the seed alone, in tenths
SeededRandom(seed) == (seed * 7 + 3) % 10

\* roll <= min(0.8, 0.1 + attack / defence * 0.4), roll in tenths
CaptureChanceHolds(roll, attackStrength, defendStrength) ==
    roll * defendStrength <= Min(8 * defendStrength, defendStrength + 4 * attackStrength)

\* BattleUnitCapture.unit_captured_prize_ships_unique
UnitCapturedPrizeShipsUnique(hasUnique, attackStrength, defendStrength, turns, tileHash) ==
    IF ~hasUnique THEN FALSE
    ELSE CaptureChanceHolds(SeededRandom(turns * tileHash), attackStrength, defendStrength)

\* BattleUnitCapture.unit_captured_from_encampment: every GainFromEncampment
\* unique of the attacker's civ pays its gold; uniques is the list of amounts
UnitCapturedFromEncampment(defenderBarbarian, tileIsEncampment, uniques) ==
    IF ~defenderBarbarian \/ ~tileIsEncampment
    THEN [captured |-> FALSE, gold |-> 0]
    ELSE [captured |-> Len(uniques) > 0, gold |-> SumSeq(uniques)]

\* the GainFromDefeatingUnit uniques whose filter the defender matches
MatchingGold(uniques) ==
    SumSeq([i \in 1..Len(uniques) |-> IF uniques[i].matches THEN uniques[i].gold ELSE 0])

\* BattleUnitCapture.unit_gain_from_defeating_unit
UnitGainFromDefeatingUnit(attackerMelee, uniques) ==
    IF ~attackerMelee
    THEN [captured |-> FALSE, gold |-> 0]
    ELSE [captured |-> \E i \in 1..Len(uniques) : uniques[i].matches,
          gold |-> MatchingGold(uniques)]

\* no trigger fired, no gold paid
NoTrigger == [captured |-> FALSE, gold |-> 0]

\* the three triggers joined by a short-circuiting "or": a trigger is not
\* evaluated once an earlier one has fired (the mutation of EvaluateTriggers)
EvaluateTriggersShortCircuit(in) ==
    LET prize == UnitCapturedPrizeShipsUnique(in.prize.hasUnique,
                     in.prize.attackStrength, in.prize.defendStrength,
                     in.prize.turns, in.prize.tileHash)
        enc == IF prize THEN NoTrigger
               ELSE UnitCapturedFromEncampment(in.enc.defenderBarbarian,
                        in.enc.tileIsEncampment, in.enc.uniques)
        def == IF prize \/ enc.captured THEN NoTrigger
               ELSE UnitGainFromDefeatingUnit(in.def.attackerMelee, in.def.uniques)
    IN  [prize |-> prize, enc |-> enc, def |-> def]

\* the list handed to any(...) in try_capture_military_unit: the three
\* triggers are all called before any(...) looks at a result
EvaluateTriggers(in) ==
    [prize |-> UnitCapturedPrizeShipsUnique(in.prize.hasUnique,
                  in.prize.attackStrength, in.prize.defendStrength,
                  in.prize.turns, in.prize.tileHash),
     enc |-> UnitCapturedFromEncampment(in.enc.defenderBarbarian,
                  in.enc.tileIsEncampment, in.enc.uniques),
     def |-> UnitGainFromDefeatingUnit(in.def.attackerMelee, in.def.uniques)]

\* the early returns of try_capture_military_unit
CaptureEligible(attackerIsUnit, defenderIsUnit, uncapturable, defeated, civilian) ==
    /\ defenderIsUnit /\ attackerIsUnit
    /\ ~uncapturable
    /\ defeated /\ ~civilian

\* one spawn per trigger that fired (the mutation of SpawnInvocations)
SpawnInvocationsPerTrigger(prize, encampment, defeating) ==
    (IF prize THEN 1 ELSE 0) + (IF encampment THEN 1 ELSE 0) + (IF defeating THEN 1 ELSE 0)

\* was_unit_captured = any([...]); spawn_captured_unit is called after it, once
SpawnInvocations(prize, encampment, defeating) ==
    IF prize \/ encampment \/ defeating THEN 1 ELSE 0

\* capture_civilian_unit called for a civilian on the defender's tile wherever
\* the new unit was placed (the mutation of CivilianCaptureCalls)
CivilianCaptureCallsAnyTile(placed, civilianOnTile) ==
    IF placed # "none" /\ civilianOnTile THEN 1 ELSE 0

\* spawn_captured_unit: capture_civilian_unit is called for a civilian on the
\* defender's tile when the new unit was placed on another tile
CivilianCaptureCalls(placed, civilianOnTile) ==
    IF placed = "near" /\ civilianOnTile THEN 1 ELSE 0

\* the inputs a call is drawn from; an input that the code does not read
\* in a case is kept at one value there
CapStrengths == 1..MaxStrength
CapSeeds == 1..MaxSeedPart
EncampmentUniqueLists == {<<>>} \cup {<<g>> : g \in 1..MaxGoldParam} \cup {<<1, MaxGoldParam>>}
DefeatingUnique == [matches : BOOLEAN, gold : 1..MaxGoldParam]
DefeatingUniqueLists ==
    {<<>>} \cup {<<u>> : u \in DefeatingUnique}
           \cup {<<[matches |-> TRUE, gold |-> 1], [matches |-> TRUE, gold |-> MaxGoldParam]>>}

PrizeInputs ==
    {[hasUnique |-> FALSE, attackStrength |-> 1, defendStrength |-> 1, turns |-> 1, tileHash |-> 1]}
    \cup [hasUnique : {TRUE}, attackStrength : CapStrengths, defendStrength : CapStrengths,
          turns : CapSeeds, tileHash : CapSeeds]

EncampmentInputs ==
    {[defenderBarbarian |-> b, tileIsEncampment |-> e, uniques |-> <<1>>] :
        b \in BOOLEAN, e \in BOOLEAN}
    \cup [defenderBarbarian : {TRUE}, tileIsEncampment : {TRUE}, uniques : EncampmentUniqueLists]

DefeatingInputs ==
    {[attackerMelee |-> FALSE, uniques |-> <<[matches |-> TRUE, gold |-> 1]>>]}
    \cup [attackerMelee : {TRUE}, uniques : DefeatingUniqueLists]

EligibilityInputs ==
    [attackerIsUnit : BOOLEAN, defenderIsUnit : BOOLEAN, uncapturable : BOOLEAN,
     defeated : BOOLEAN, civilian : BOOLEAN]

IsEligible(e) ==
    CaptureEligible(e.attackerIsUnit, e.defenderIsUnit, e.uncapturable, e.defeated, e.civilian)

DefaultPrize == [hasUnique |-> FALSE, attackStrength |-> 1, defendStrength |-> 1,
                 turns |-> 1, tileHash |-> 1]
DefaultEncampment == [defenderBarbarian |-> FALSE, tileIsEncampment |-> FALSE, uniques |-> <<1>>]
DefaultDefeating == [attackerMelee |-> FALSE, uniques |-> <<[matches |-> TRUE, gold |-> 1]>>]

CaptureInputs ==
    {[elig |-> e, prize |-> DefaultPrize, enc |-> DefaultEncampment, def |-> DefaultDefeating,
      placement |-> "none", civilianOnTile |-> FALSE] :
        e \in {x \in EligibilityInputs : ~IsEligible(x)}}
    \cup [elig : {x \in EligibilityInputs : IsEligible(x)}, prize : PrizeInputs,
          enc : EncampmentInputs, def : DefeatingInputs,
          placement : {"none", "same", "near"}, civilianOnTile : BOOLEAN]

\* the attacker and the defeated defender of one attack, before the call
InitCapture ==
    /\ IdleButCap
    /\ capIn \in CaptureInputs
    /\ capGold \in 0..1
    /\ capSpawned = 0
    /\ capCall = NoCaptureCall

\* a call that returns False before the triggers are evaluated
TryCaptureIneligible ==
    /\ ~capCall.called
    /\ ~IsEligible(capIn.elig)
    /\ capCall' = [NoCaptureCall EXCEPT !.called = TRUE]
    /\ UNCHANGED <<capIn, capGold, capSpawned, notCap>>

\* a call on an eligible defeated military unit: the three triggers are all
\* evaluated, then the captured unit is spawned if one of them fired
TryCaptureEligible ==
    /\ ~capCall.called
    /\ IsEligible(capIn.elig)
    /\ LET triggers == EvaluateTriggers(capIn)
           prize == triggers.prize
           enc == triggers.enc
           def == triggers.def
           spawns == SpawnInvocations(prize, enc.captured, def.captured)
           placed == IF spawns > 0 THEN capIn.placement ELSE "none"
       IN  /\ capGold' = capGold + enc.gold + def.gold
           /\ capSpawned' = capSpawned + (IF placed = "none" THEN 0 ELSE spawns)
           /\ capCall' = [called |-> TRUE, eligible |-> TRUE, prize |-> prize,
                          encampment |-> enc.captured, defeating |-> def.captured,
                          spawnCalls |-> spawns, placed |-> placed,
                          civilianOnTile |-> capIn.civilianOnTile,
                          civilianCaptures |->
                              spawns * CivilianCaptureCalls(placed, capIn.civilianOnTile),
                          encampmentGold |-> enc.gold,
                          defeatingGold |-> def.gold,
                          result |-> spawns > 0 /\ placed # "none"]
    /\ UNCHANGED <<capIn, notCap>>

NextCapture == TryCaptureIneligible \/ TryCaptureEligible

SpecCapture == InitCapture /\ [][NextCapture]_vars

(***************************************************************************)
(* Battle: the attack orchestrator                                         *)
(*                                                                         *)
(* A battle state b holds the attacker (att), the combatant on the target  *)
(* tile (def), what is given about them and the map (tr: unit uniques,     *)
(* civilization flags, tile attributes, the values of external queries),   *)
(* and what the call changed or returned.  Effects of ruleset-triggered    *)
(* uniques (UniqueTriggerActivation, plunder, healing) are taken as absent.*)
(***************************************************************************)
\* the map around one attack: 1 - 2 - 3, tile 4 touches 2, 3 and 5, tile 5 touches 3
Tiles == 1..5
TileEdges == {{1, 2}, {2, 3}, {2, 4}, {3, 4}, {3, 5}, {4, 5}}

\* Tile.neighbors
Neighbors(t) == {u \in Tiles : {t, u} \in TileEdges}

\* the gold taken by a barbarian raid is at most this much
RansomCap == 200

\* a MapUnit as the battle reads and changes it
BattleUnit(ranged, air, civilian, health, civ, tile, movement, action) ==
    [isCity |-> FALSE, ranged |-> ranged, air |-> air, civilian |-> civilian,
     health |-> health, civ |-> civ, tile |-> tile, movement |-> movement,
     attacksThisTurn |-> 0, attacksSince |-> 0, action |-> action, xp |-> 0,
     destroyCalls |-> 0, cityAttacked |-> FALSE]

\* a City as the battle reads and changes it
BattleCity(health, civ, tile) ==
    [isCity |-> TRUE, ranged |-> TRUE, air |-> FALSE, civilian |-> FALSE,
     health |-> health, civ |-> civ, tile |-> tile, movement |-> 0,
     attacksThisTurn |-> 0, attacksSince |-> 0, action |-> "none", xp |-> 0,
     destroyCalls |-> 0, cityAttacked |-> FALSE]

\* MapUnit.use_movement_points
UseMovementPoints(movement, amount) == Max(0, movement - amount)

\* ICombatant.take_damage; a unit whose health reaches 0 is destroyed by it
Hit(c, damage) ==
    LET after == TakeDamage(c, damage)
    IN  IF ~c.isCity /\ c.health > 0 /\ after.health <= 0
        THEN [after EXCEPT !.destroyCalls = @ + 1]
        ELSE after

\* MapUnit.destroy()
Destroy(c) == [c EXCEPT !.destroyCalls = @ + 1]

\* DamageDealt.none()
DamageNone == [attackerDealt |-> 0, defenderDealt |-> 0]

\* Battle.attack: attacks_since_turn_start.append(...)
RecordAttack(b) ==
    IF b.att.isCity THEN [b EXCEPT !.civAttacksSince = @ + 1]
    ELSE [b EXCEPT !.att.attacksSince = @ + 1]

\* try_intercept_air_attack without the cap at the attacker's health (the
\* mutation of TryInterceptAirAttack)
TryInterceptAirAttackUncapped(b) ==
    IF b.tr.cannotBeIntercepted \/ ~b.tr.interceptor THEN {b}
    ELSE LET b1 == [b EXCEPT !.interceptorAttacks = @ + 1]
         IN  {b1} \cup
             {[b1 EXCEPT !.att = Hit(@, raw),
                         !.iceptDmg = raw,
                         !.interceptorXp = @ + (IF raw > 0 THEN 2 ELSE 0)] :
                 raw \in 0..MaxBattleDamage}

\* AirInterception.try_intercept_air_attack: the battle states it can leave
TryInterceptAirAttack(b) ==
    IF b.tr.cannotBeIntercepted \/ ~b.tr.interceptor THEN {b}
    ELSE LET b1 == [b EXCEPT !.interceptorAttacks = @ + 1]
         IN  {b1} \cup
             {[b1 EXCEPT !.att = Hit(@, Min(raw, b1.att.health)),
                         !.iceptDmg = Min(raw, b1.att.health),
                         !.interceptorXp = @ + (IF Min(raw, b1.att.health) > 0 THEN 2 ELSE 0)] :
                 raw \in 0..MaxBattleDamage}

\* reduce_attacker_movement_points_and_attacks: the movement left
MovementAfterAttack(b, attacks) ==
    IF b.tr.canMoveAfter \/ b.tr.maxAttacks > attacks
    THEN IF ~b.tr.movesLikeAir /\ ~(IsMelee(b.att) /\ IsDefeated(b.def))
         THEN UseMovementPoints(b.att.movement, 1)
         ELSE b.att.movement
    ELSE 0

\* reduce_attacker_movement_points_and_attacks without the early return for a
\* civilian on the attacker's tile (the mutation of ReduceAttackerMovementPointsAndAttacks)
ReduceAttackerAlwaysCounts(b) ==
    IF b.att.isCity THEN [b EXCEPT !.att.cityAttacked = TRUE]
    ELSE [b EXCEPT !.att.attacksThisTurn = @ + 1,
                   !.att.movement = MovementAfterAttack(b, b.att.attacksThisTurn + 1),
                   !.att.action = IF @ \in {"Fortify", "Sleep", "Guard"} THEN "none" ELSE @]

\* Battle.reduce_attacker_movement_points_and_attacks
ReduceAttackerMovementPointsAndAttacks(b) ==
    IF b.att.isCity THEN [b EXCEPT !.att.cityAttacked = TRUE]
    ELSE IF IsCivilian(b.def) /\ b.att.tile = b.def.tile THEN b
    ELSE [b EXCEPT !.att.attacksThisTurn = @ + 1,
                   !.att.movement = MovementAfterAttack(b, b.att.attacksThisTurn + 1),
                   !.att.action = IF @ \in {"Fortify", "Sleep", "Guard"} THEN "none" ELSE @]

\* can_not_withdraw_to inside do_withdraw_from_melee_ability
CanNotWithdrawTo(b, t) ==
    \/ b.tr.tileAttr[t] = "blocked"
    \/ b.tr.defLand /\ b.tr.tileAttr[t] = "water"
    \/ b.tr.tileAttr[t] = "foreignCity"

\* first_candidate_tiles: not the attacker's tile and not next to it
FirstCandidateTiles(b) ==
    {t \in Neighbors(b.def.tile) :
        t # b.att.tile /\ t \notin Neighbors(b.att.tile) /\ ~CanNotWithdrawTo(b, t)}

\* second_candidate_tiles: next to the attacker's tile
SecondCandidateTiles(b) ==
    {t \in Neighbors(b.def.tile) : t \in Neighbors(b.att.tile) /\ ~CanNotWithdrawTo(b, t)}

\* the candidates taken in the wrong order (the mutation of WithdrawTargets)
WithdrawTargetsNearFirst(b) ==
    IF b.tr.defFlags # {} THEN {}
    ELSE IF SecondCandidateTiles(b) # {} THEN SecondCandidateTiles(b)
    ELSE FirstCandidateTiles(b)

\* the tiles do_withdraw_from_melee_ability may choose; none: it returns False
WithdrawTargets(b) ==
    IF b.tr.defFlags # {} THEN {}
    ELSE IF FirstCandidateTiles(b) # {} THEN FirstCandidateTiles(b)
    ELSE SecondCandidateTiles(b)

\* do_withdraw_from_melee_ability with to_tile chosen
DoWithdrawFromMeleeAbility(b, toTile) ==
    ReduceAttackerMovementPointsAndAttacks([b EXCEPT !.def.tile = toTile])

\* the condition of the withdraw step of Battle.attack, before the ability is tried
WithdrawApplies(b) ==
    ~b.att.isCity /\ IsMelee(b.att) /\ ~b.def.isCity /\ b.tr.defWithdraws

\* BattleUnitCapture.capture_civilian_unit, by the branch the unit falls in
CaptureCivilianUnit(b) ==
    CASE b.tr.civilianCapture = "captured" -> [b EXCEPT !.def.civ = b.att.civ, !.def.action = "none"]
      [] b.tr.civilianCapture = "destroyed" -> [b EXCEPT !.def = Destroy(@), !.def.action = "none"]
      [] OTHER -> [b EXCEPT !.def = [Destroy(@) EXCEPT !.civ = b.att.civ], !.def.action = "none"]

\* the alternating loop of Battle.take_damage: every way it can end
RECURSIVE LoopOutcomes(_, _, _, _)
LoopOutcomes(potDef, potAtt, att, def) ==
    IF ~LoopContinues(potDef, potAtt) THEN {[att |-> att, def |-> def]}
    ELSE (IF CanHitDefender(potDef, potAtt)
          THEN IF IsDefeated(Hit(def, 1)) THEN {[att |-> att, def |-> Hit(def, 1)]}
               ELSE LoopOutcomes(BudgetAfterHit(potDef), potAtt, att, Hit(def, 1))
          ELSE {})
         \cup
         (IF CanHitAttacker(potDef, potAtt)
          THEN IF IsDefeated(Hit(att, 1)) THEN {[att |-> Hit(att, 1), def |-> def]}
               ELSE LoopOutcomes(potDef, BudgetAfterHit(potAtt), Hit(att, 1), def)
          ELSE {})

\* Battle.take_damage: the battle states it can leave, with the damage dealt
BattleTakeDamage(b) ==
    LET potDef == CalculateDamageToDefender(b.att, b.def, b.tr.fd)
        potAtt == CalculateDamageToAttacker(b.att, b.def, b.tr.fa)
        path == ExchangePath(b.att, b.def)
        after == IF path = "capture" THEN {CaptureCivilianUnit(b)}
                 ELSE IF path = "ranged" THEN {[b EXCEPT !.def = Hit(@, potDef)]}
                 ELSE {[b EXCEPT !.att = o.att, !.def = o.def] :
                          o \in LoopOutcomes(potDef, potAtt, b.att, b.def)}
    IN  {[a EXCEPT !.dealt = [attackerDealt |-> b.def.health - a.def.health,
                              defenderDealt |-> b.att.health - a.att.health],
                   !.potDef = potDef, !.potAtt = potAtt,
                   !.exchanges = @ + 1] : a \in after}

\* BattleUnitCapture.try_capture_military_unit, a trigger firing and the
\* placement of the new unit succeeding as tr.captureFires says
TryCaptureMilitaryUnit(b) ==
    /\ ~b.def.isCity /\ ~b.att.isCity
    /\ ~b.tr.uncapturable
    /\ IsDefeated(b.def) /\ ~IsCivilian(b.def)
    /\ b.tr.captureFires

\* the barbarian raid of Battle.attack: back to 2 HP, ransom, the raider is destroyed
BarbarianRaid(b) ==
    [b EXCEPT !.def = TakeDamage(@, -1),
              !.gold = @ - Min(RansomCap, b.gold),
              !.raids = @ + 1,
              !.att = Destroy(@)]

\* Battle.conquer_city: the city is flagged and what stands on its tile removed
ConquerCity(b) ==
    [b EXCEPT !.conquerCalls = @ + 1, !.cityJustConquered = TRUE]

\* the city-capture condition without the defeat test (the mutation of CityCaptureApplies)
CityCaptureAppliesWhenDamaged(b) ==
    /\ b.def.isCity /\ b.dealt.attackerDealt > 0
    /\ ~b.att.isCity /\ IsMelee(b.att)
    /\ ~b.tr.cannotCaptureCities

\* the city-capture condition of Battle.attack
CityCaptureApplies(b) ==
    /\ IsDefeated(b.def) /\ b.def.isCity
    /\ ~b.att.isCity /\ IsMelee(b.att)
    /\ ~b.tr.cannotCaptureCities

\* the city-capture step with barbarians conquering like everyone else
\* (the mutation of HandleCityCapture)
HandleCityCaptureNoRaid(b) ==
    IF ~CityCaptureApplies(b) THEN b ELSE ConquerCity(b)

\* the city-capture step of Battle.attack
HandleCityCapture(b) ==
    IF ~CityCaptureApplies(b) THEN b
    ELSE IF b.tr.attBarbarian THEN BarbarianRaid(b)
    ELSE ConquerCity(b)

\* the self-destruct step of Battle.attack
HandleSelfDestruct(b) ==
    IF b.att.isCity THEN b
    ELSE IF b.tr.selfDestructs THEN [b EXCEPT !.att = Destroy(@)]
    ELSE IF b.att.action = "moving" THEN [b EXCEPT !.att.action = "none"]
    ELSE b

\* Battle.post_battle_move_to_attacked_tile
PostBattleMoveToAttackedTile(b, attackedTile) ==
    IF ~IsMelee(b.att) THEN b
    ELSE IF ~IsDefeated(b.def) /\ b.def.civ # b.att.civ THEN b
    ELSE IF ~b.att.isCity /\ b.tr.attCannotMove THEN b
    ELSE IF ~b.att.isCity /\ b.tr.canEnterTile
         THEN [b EXCEPT !.att.tile = attackedTile,
                        !.att.movement = UseMovementPoints(@, b.tr.entryCost)]
         ELSE b

\* Battle.add_xp: only unit combatants gain experience, and none from a
\* barbarian once the unit has produced max_xp_from_barbarians; the experience
\* uniques of the ruleset are left out, so the amount is gained as it is
AddXp(c, amount, otherIsBarbarian, xpMaxed) ==
    IF c.isCity THEN c
    ELSE IF otherIsBarbarian /\ xpMaxed THEN c
    ELSE [c EXCEPT !.xp = @ + amount]

\* the inner add_xp of post_battle_add_xp: the attacker's award, then the defender's
AddXpBoth(b, attackerXp, defenderXp) ==
    [b EXCEPT !.att = AddXp(@, attackerXp, b.tr.defBarbarian, b.tr.attXpMaxed),
              !.def = AddXp(@, defenderXp, b.tr.attBarbarian, b.tr.defXpMaxed)]

\* post_battle_add_xp with the civilian test made before the attacker's kind
\* is looked at (the mutation of PostBattleAddXp)
PostBattleAddXpCivilianFirst(b) ==
    IF IsCivilian(b.def) THEN b
    ELSE IF IsAirUnit(b.att) THEN AddXpBoth(b, 4, 2)
    ELSE IF IsRanged(b.att)
         THEN IF b.def.isCity THEN AddXpBoth(b, 3, 2) ELSE AddXpBoth(b, 2, 2)
    ELSE AddXpBoth(b, 5, 4)

\* Battle.post_battle_add_xp
PostBattleAddXp(b) ==
    IF IsAirUnit(b.att) THEN AddXpBoth(b, 4, 2)
    ELSE IF IsRanged(b.att)
         THEN IF b.def.isCity THEN AddXpBoth(b, 3, 2) ELSE AddXpBoth(b, 2, 2)
    ELSE IF ~IsCivilian(b.def) THEN AddXpBoth(b, 5, 4)
    ELSE b

\* Battle.attack from the damage exchange on, for one outcome e of the exchange
AfterExchange(e, attackedTile, alreadyDefeatedCity) ==
    LET captured == TryCaptureMilitaryUnit(e)
        b1 == [e EXCEPT !.captured = captured,
                        !.campAttacked = @ + (IF e.tr.defBarbarian /\ e.tr.tileEncampment
                                              THEN 1 ELSE 0)]
        b2 == HandleCityCapture(b1)
        b3 == IF ~IsDefeated(b2.def) /\ ~b2.def.isCity /\ b2.def.action = "Explore"
              THEN [b2 EXCEPT !.def.action = "none"] ELSE b2
        b4 == HandleSelfDestruct(b3)
        b5 == IF ~captured THEN PostBattleMoveToAttackedTile(b4, attackedTile) ELSE b4
        b6 == ReduceAttackerMovementPointsAndAttacks(b5)
        b7 == IF ~alreadyDefeatedCity THEN PostBattleAddXp(b6) ELSE b6
    IN  [b7 EXCEPT !.ret = [attackerDealt |-> b7.dealt.attackerDealt,
                            defenderDealt |-> b7.dealt.defenderDealt + b7.iceptDmg],
                   !.path = "full"]

\* Battle.attack from the withdraw check on with is_already_defeated_city
\* read after the damage exchange (the mutation of AfterInterception)
AfterInterceptionLateCityTest(i) ==
    IF ~i.att.isCity /\ IsAirUnit(i.att) /\ IsDefeated(i.att)
    THEN {[i EXCEPT !.ret = [attackerDealt |-> 0, defenderDealt |-> i.iceptDmg],
                    !.path = "intercepted"]}
    ELSE IF WithdrawApplies(i) /\ WithdrawTargets(i) # {}
    THEN {[DoWithdrawFromMeleeAbility(i, t) EXCEPT !.ret = DamageNone, !.path = "withdrew"] :
             t \in WithdrawTargets(i)}
    ELSE {AfterExchange(e, i.def.tile, e.def.isCity /\ IsDefeated(e.def)) :
             e \in BattleTakeDamage(i)}

\* Battle.attack from the withdraw check on, for one outcome i of the interception
AfterInterception(i) ==
    IF ~i.att.isCity /\ IsAirUnit(i.att) /\ IsDefeated(i.att)
    THEN {[i EXCEPT !.ret = [attackerDealt |-> 0, defenderDealt |-> i.iceptDmg],
                    !.path = "intercepted"]}
    ELSE IF WithdrawApplies(i) /\ WithdrawTargets(i) # {}
    THEN {[DoWithdrawFromMeleeAbility(i, t) EXCEPT !.ret = DamageNone, !.path = "withdrew"] :
             t \in WithdrawTargets(i)}
    ELSE {AfterExchange(e, i.def.tile, i.def.isCity /\ IsDefeated(i.def)) :
             e \in BattleTakeDamage(i)}

\* Battle.attack(attacker, defender): every battle state the call can leave
Attack(b) ==
    LET b0 == RecordAttack([b EXCEPT !.attackCalls = @ + 1])
        intercepted == IF ~b0.att.isCity /\ IsAirUnit(b0.att)
                       THEN TryInterceptAirAttack(b0) ELSE {b0}
    IN  UNION {AfterInterception(i) : i \in intercepted}

\* air_sweep: the movement left after the sweep has counted as an attack
\* with one point taken whatever the unit may still do (the mutation of SweepMovement)
SweepMovementAlwaysOne(b, attacks) == UseMovementPoints(b.att.movement, 1)

\* air_sweep: the movement left after the sweep has counted as an attack
SweepMovement(b, attacks) ==
    IF b.tr.canMoveAfter \/ b.tr.maxAttacks > attacks
    THEN IF ~b.tr.movesLikeAir THEN UseMovementPoints(b.att.movement, 1)
         ELSE b.att.movement
    ELSE 0

\* civ.add_notification: one more notification, to a civilization, of a variant
AddNotification(b, to, variant) == [b EXCEPT !.notes = Append(@, [to |-> to, variant |-> variant])]

\* _add_air_sweep_interception_notifications: the variant the attacker's civilization gets
SweepAttackerText(b) ==
    IF IsDefeated(b.att) /\ b.tr.interceptorSeen THEN "destroyed by an intercepting"
    ELSE IF IsDefeated(b.att) THEN "destroyed by an unknown interceptor"
    ELSE IF IsDefeated(b.icp) THEN "destroyed an intercepting"
    ELSE "attacked by an intercepting"

\* air_sweep when the interceptor picked is an air unit: exchange, 5 XP to both, notifications
SweepAirVersusAir(b) ==
    {LET x1 == [x EXCEPT !.icp = AddXp(x.def, 5, b.tr.attBarbarian, FALSE), !.def = b.def,
                         !.att = AddXp(@, 5, FALSE, b.tr.attXpMaxed)]
         x2 == AddNotification(x1, b.att.civ, SweepAttackerText(x1))
         x3 == AddNotification(x2, b.icp.civ, "intercepted")
     IN  [x3 EXCEPT !.att.action = "none", !.path = "sweep fought"] :
        x \in BattleTakeDamage([b EXCEPT !.def = b.icp])}

\* AirInterception.air_sweep(attacker, attacked_tile): every battle state it can leave
AirSweep(b) ==
    LET n == b.att.attacksThisTurn + 1
        b1 == [b EXCEPT !.att.attacksThisTurn = n, !.att.movement = SweepMovement(b, n)]
    IN  IF b.tr.sweepInterceptor = "none"
        THEN {[AddNotification(b1, b.att.civ, "Nothing tried to intercept") EXCEPT
                  !.att.action = "none", !.path = "sweep unopposed"]}
        ELSE LET b2 == [b1 EXCEPT !.icp.attacksThisTurn = @ + 1]
             IN  IF ~IsAirUnit(b2.icp)
                 THEN {[AddNotification(
                           AddNotification(b2, b.att.civ, "attacked by an intercepting"),
                           b.icp.civ, "intercepted") EXCEPT
                           !.att.action = "none", !.path = "sweep absorbed"]}
                 ELSE SweepAirVersusAir(b2)

\* the tiles between a unit and the tile it attacks from, the latter last
PathToTile(from, to) ==
    IF from = to THEN <<>>
    ELSE IF to \in Neighbors(from) THEN <<to>>
    ELSE <<2, to>>

\* is 10 * health above 9 * full health: the "health > 90" of a unit with 100 at full health
HealthAbove90(health) == health * 10 > MaxUnitHealth * 9

\* UnitMovement.move_to_tile: the unit arrives, stops on the way, or does not move
MoveToTileOutcomes(att, to) ==
    LET path == PathToTile(att.tile, to)
    IN  {att} \cup
        {[att EXCEPT !.tile = path[k], !.movement = m] :
            k \in 1..Len(path), m \in 0..(att.movement - 1)}

\* the pillage loop of move_preparing_attack over the tiles moved through
RECURSIVE HealPillage(_, _)
HealPillage(b, path) ==
    IF path = <<>> THEN b
    ELSE IF b.att.movement <= 1 \/ HealthAbove90(b.att.health) THEN b
    ELSE IF b.tr.pillageable
         THEN HealPillage([b EXCEPT !.att.movement = UseMovementPoints(@, 1),
                                    !.att.health = Min(MaxUnitHealth, @ + 1),
                                    !.pillages = @ + 1], Tail(path))
         ELSE HealPillage(b, Tail(path))

\* the siege set-up step of move_preparing_attack
SetUpForSiege(b) ==
    IF b.tr.mustSetUp /\ b.att.action # "SetUp" /\ b.att.movement > 0
    THEN [b EXCEPT !.att.action = "SetUp", !.att.movement = UseMovementPoints(@, 1)]
    ELSE b

\* Battle.get_map_combatant_of_tile(tile_to_attack) finds an attackable combatant
TargetValid(b) == b.tr.target # "none" /\ b.def.civ # b.att.civ

\* the position test that also accepts a tile next to the staging tile
\* (the mutation of OnTileToAttackFrom)
OnTileToAttackFromOrNextToIt(att, staging) ==
    att.tile = staging \/ att.tile \in Neighbors(staging)

\* attacker.get_tile() == attackable_tile.tile_to_attack_from
OnTileToAttackFrom(att, staging) == att.tile = staging

\* Battle.move_preparing_attack(attacker, attackable_tile, True): result and state
MovePreparingAttack(b) ==
    IF b.att.isCity THEN {[ok |-> TRUE, b |-> b]}
    ELSE {LET b1 == [b EXCEPT !.att = moved, !.stagedAt = moved.tile]
              b2 == HealPillage(SetUpForSiege(b1), PathToTile(b.att.tile, b.tr.staging))
          IN  IF ~OnTileToAttackFrom(moved, b.tr.staging) THEN [ok |-> FALSE, b |-> b1]
              ELSE IF ~TargetValid(b1) THEN [ok |-> FALSE, b |-> b1]
              ELSE [ok |-> b2.att.movement > 0, b |-> b2] :
             moved \in MoveToTileOutcomes(b.att, b.tr.staging)}

\* Battle.attack_or_nuke
AttackOrNuke(b) ==
    IF ~b.att.isCity /\ b.tr.nuclear
    THEN {[b EXCEPT !.nukeCalls = @ + 1, !.ret = DamageNone, !.path = "nuke"]}
    ELSE IF b.tr.target = "none" THEN {[b EXCEPT !.path = "raised"]}
    ELSE Attack(b)

\* Battle.move_and_attack(attacker, attackable_tile)
MoveAndAttack(b) ==
    UNION {IF p.ok THEN AttackOrNuke(p.b) ELSE {[p.b EXCEPT !.path = "aborted"]} :
              p \in MovePreparingAttack(b)}

\* what is given about the two sides and the map when nothing special holds
DefaultTraits ==
    [entry |-> "attack", target |-> "enemy", staging |-> 2,
     maxAttacks |-> 1, canMoveAfter |-> FALSE, movesLikeAir |-> FALSE,
     cannotCaptureCities |-> FALSE, selfDestructs |-> FALSE, attCannotMove |-> FALSE,
     attBarbarian |-> FALSE, mustSetUp |-> FALSE, nuclear |-> FALSE, pillageable |-> FALSE,
     defWithdraws |-> FALSE, defFlags |-> {}, defLand |-> TRUE, defBarbarian |-> FALSE,
     tileEncampment |-> FALSE, uncapturable |-> FALSE, captureFires |-> FALSE,
     civilianCapture |-> "captured", interceptor |-> FALSE, cannotBeIntercepted |-> FALSE,
     canEnterTile |-> TRUE, entryCost |-> 1, fd |-> 1, fa |-> 1,
     sweepInterceptor |-> "none", interceptorSeen |-> TRUE,
     attXpMaxed |-> FALSE, defXpMaxed |-> FALSE,
     tileAttr |-> [t \in Tiles |-> "open"]]

\* nothing on the target tile
NoCombatant == BattleUnit(FALSE, FALSE, FALSE, 0, "none", 3, 0, "none")

\* the state of the world before a call
NewBattle(att, def, tr, gold) ==
    [att |-> att, def |-> def, tr |-> tr, gold |-> gold,
     ret |-> DamageNone, path |-> "none", dealt |-> DamageNone,
     iceptDmg |-> 0, interceptorAttacks |-> 0, interceptorXp |-> 0,
     civAttacksSince |-> 0, attackCalls |-> 0, nukeCalls |-> 0, exchanges |-> 0,
     captured |-> FALSE, campAttacked |-> 0, raids |-> 0, conquerCalls |-> 0,
     cityJustConquered |-> FALSE, pillages |-> 0, stagedAt |-> 0,
     icp |-> NoCombatant, notes |-> <<>>, potDef |-> -1, potAtt |-> -1]

\* attacking base units: ranged or melee, air or not, with or without an interceptor in range
AttackerKinds ==
    {[ranged |-> r, air |-> a, interceptor |-> i] :
        r \in BOOLEAN, a \in BOOLEAN, i \in BOOLEAN} \ 
    {[ranged |-> r, air |-> FALSE, interceptor |-> TRUE] : r \in BOOLEAN}

\* attacks-per-turn, move-after-attacking and moves-like-air of the attacker
MovementRules ==
    {[maxAttacks |-> n, canMoveAfter |-> c, movesLikeAir |-> a] :
        n \in 1..2, c \in BOOLEAN, a \in BOOLEAN}

\* the far neighbour of the defender and the defender's domain
FarTileCases ==
    {[attr |-> a, land |-> TRUE] : a \in {"open", "blocked", "foreignCity", "water"}}
    \cup {[attr |-> "water", land |-> FALSE]}

\* the states a defender can be in that bar withdrawing, one at a time
DefFlagCases == {{}} \cup {{f} : f \in {"embarked", "cannotMove", "escorting", "guarding"}}

\* an attack on a unit that withdraws before melee combat
WithdrawScenario(s) ==
    \E k \in AttackerKinds, at \in {2, 4}, m \in 0..MaxMovement, fl \in DefFlagCases,
        far \in FarTileCases, near \in {"open", "blocked"}, mr \in MovementRules :
        /\ s = NewBattle(BattleUnit(k.ranged, k.air, FALSE, MaxUnitHealth, "A", at, m, "none"),
                    BattleUnit(FALSE, FALSE, FALSE, MaxUnitHealth, "B", 3, 1, "none"),
                    [DefaultTraits EXCEPT !.defWithdraws = TRUE, !.defFlags = fl,
                                          !.defLand = far.land,
                                          !.tileAttr = [t \in Tiles |->
                                              IF t = 5 THEN far.attr ELSE IF t = 4 THEN near
                                              ELSE "open"],
                                          !.maxAttacks = mr.maxAttacks,
                                          !.canMoveAfter = mr.canMoveAfter,
                                          !.movesLikeAir = mr.movesLikeAir,
                                          !.interceptor = k.interceptor],
                    0)

\* an attack on a military unit
FightScenario(s) ==
    \E k \in AttackerKinds, ah \in {1, MaxUnitHealth}, dh \in 1..MaxUnitHealth,
        fd \in 0..MaxBattleDamage, fa \in 0..MaxBattleDamage,
        cf \in BOOLEAN, sd \in BOOLEAN, ce \in BOOLEAN :
        /\ s = NewBattle(BattleUnit(k.ranged, k.air, FALSE, ah, "A", 2, 1, "none"),
                    BattleUnit(FALSE, FALSE, FALSE, dh, "B", 3, 1, "none"),
                    [DefaultTraits EXCEPT !.fd = fd, !.fa = fa, !.captureFires = cf,
                                          !.selfDestructs = sd, !.canEnterTile = ce,
                                          !.interceptor = k.interceptor],
                    0)

\* an attack by a unit in some status under each movement rule
StatusScenario(s) ==
    \E r \in BOOLEAN, m \in 0..MaxMovement, act \in {"none", "Fortify", "Sleep", "moving"},
        dh \in {1, MaxUnitHealth}, dact \in {"none", "Explore"}, fd \in {0, MaxBattleDamage},
        mr \in MovementRules, camp \in BOOLEAN :
        /\ s = NewBattle(BattleUnit(r, FALSE, FALSE, MaxUnitHealth, "A", 2, m, act),
                    BattleUnit(FALSE, FALSE, FALSE, dh, "B", 3, 1, dact),
                    [DefaultTraits EXCEPT !.fd = fd, !.fa = 0,
                                          !.maxAttacks = mr.maxAttacks,
                                          !.canMoveAfter = mr.canMoveAfter,
                                          !.movesLikeAir = mr.movesLikeAir,
                                          !.defBarbarian = camp, !.tileEncampment = camp],
                    0)

\* an attack on a civilian unit
CivilianScenario(s) ==
    \E k \in AttackerKinds, cc \in {"captured", "destroyed", "converted"},
        ce \in BOOLEAN, cm \in BOOLEAN, mr \in MovementRules, capped \in BOOLEAN :
        /\ s = NewBattle(BattleUnit(k.ranged, k.air, FALSE, MaxUnitHealth, "A", 2, 1, "none"),
                    BattleUnit(FALSE, FALSE, TRUE, MaxUnitHealth, "B", 3, 1, "none"),
                    [DefaultTraits EXCEPT !.civilianCapture = cc, !.canEnterTile = ce,
                                          !.defBarbarian = capped, !.attXpMaxed = capped,
                                          !.attCannotMove = cm,
                                          !.maxAttacks = mr.maxAttacks,
                                          !.canMoveAfter = mr.canMoveAfter,
                                          !.movesLikeAir = mr.movesLikeAir,
                                          !.interceptor = k.interceptor],
                    0)

\* a city bombarding a unit
BombardScenario(s) ==
    \E c \in BOOLEAN, dh \in 1..MaxUnitHealth, fd \in 0..MaxBattleDamage :
        /\ s = NewBattle(BattleCity(MaxUnitHealth, "A", 2),
                    BattleUnit(FALSE, FALSE, c, dh, "B", 3, 1, "none"),
                    [DefaultTraits EXCEPT !.fd = fd], 0)

\* the treasury of a raided civilization: in debt, empty, below and above the ransom cap
GoldCases == {-50, 0, 150, 250}

\* an attack on a city
CityScenario(s) ==
    \E k \in AttackerKinds, ah \in {1, MaxUnitHealth}, ch \in 1..MaxUnitHealth,
        fd \in 0..MaxBattleDamage, fa \in 0..MaxBattleDamage,
        barb \in BOOLEAN, ccc \in BOOLEAN, sd \in BOOLEAN, gold \in GoldCases :
        /\ barb \/ gold = 0
        /\ s = NewBattle(BattleUnit(k.ranged, k.air, FALSE, ah, "A", 2, 1, "none"),
                    BattleCity(ch, "B", 3),
                    [DefaultTraits EXCEPT !.fd = fd, !.fa = fa, !.attBarbarian = barb,
                                          !.cannotCaptureCities = ccc, !.selfDestructs = sd,
                                          !.interceptor = k.interceptor],
                    gold)

\* what stands on the target tile of a move-and-attack order
TargetCases ==
    {[target |-> "enemy", def |-> BattleUnit(FALSE, FALSE, FALSE, MaxUnitHealth, "B", 3, 1, "none")],
     [target |-> "enemy", def |-> BattleCity(1, "B", 3)],
     [target |-> "own", def |-> BattleUnit(FALSE, FALSE, FALSE, MaxUnitHealth, "A", 3, 1, "none")],
     [target |-> "own", def |-> BattleCity(MaxUnitHealth, "A", 3)],
     [target |-> "none", def |-> NoCombatant]}

\* a unit ordered to move next to a tile and attack it
MoveScenario(s) ==
    \E r \in BOOLEAN, h \in {MaxUnitHealth - 1, MaxUnitHealth}, from \in {1, 2},
        to \in {2, 4}, m \in 0..MaxMovement, tc \in TargetCases,
        nuc \in BOOLEAN, su \in BOOLEAN, pil \in BOOLEAN :
        /\ s = NewBattle(BattleUnit(r, FALSE, FALSE, h, "A", from, m, "none"), tc.def,
                    [DefaultTraits EXCEPT !.entry = "move", !.target = tc.target,
                                          !.staging = to, !.nuclear = nuc, !.mustSetUp = su,
                                          !.pillageable = pil],
                    0)

\* a city ordered to attack a tile
CityOrderScenario(s) ==
    \E tc \in TargetCases, fd \in 0..MaxBattleDamage :
        /\ s = NewBattle(BattleCity(MaxUnitHealth, "A", 2), tc.def,
                    [DefaultTraits EXCEPT !.entry = "move", !.target = tc.target, !.fd = fd],
                    0)

\* an air sweep: nothing in range, a ground interceptor, or an air interceptor
SweepScenario(s) ==
    \E r \in BOOLEAN, ah \in {1, MaxUnitHealth}, m \in 0..MaxMovement,
       act \in {"none", "moving"}, mr \in MovementRules,
       kind \in {"none", "ground", "air"}, ih \in {1, MaxUnitHealth},
       fd \in 0..MaxBattleDamage, fa \in 0..MaxBattleDamage, seen \in BOOLEAN :
        /\ kind = "air" \/ (ih = 1 /\ fd = 0 /\ fa = 0 /\ seen)
        /\ s = [NewBattle(BattleUnit(r, TRUE, FALSE, ah, "A", 1, m, act),
                          BattleUnit(FALSE, FALSE, FALSE, MaxUnitHealth, "B", 3, 1, "none"),
                          [DefaultTraits EXCEPT !.entry = "sweep", !.fd = fd, !.fa = fa,
                                                !.maxAttacks = mr.maxAttacks,
                                                !.canMoveAfter = mr.canMoveAfter,
                                                !.movesLikeAir = mr.movesLikeAir,
                                                !.sweepInterceptor = kind,
                                                !.interceptorSeen = seen],
                          0)
                EXCEPT !.icp = IF kind = "none" THEN NoCombatant
                               ELSE BattleUnit(TRUE, kind = "air", FALSE, ih, "B", 5, 1, "none")]

\* an air unit, immune to interception or not, flying at a tile that an
\* interceptor of the other civilization covers or not
InterceptionScenario(s) ==
    \E r \in BOOLEAN, ah \in 1..MaxUnitHealth, i \in BOOLEAN, immune \in BOOLEAN,
       c \in BOOLEAN :
        /\ s = NewBattle(BattleUnit(r, TRUE, FALSE, ah, "A", 1, 1, "none"),
                    BattleUnit(FALSE, FALSE, c, MaxUnitHealth, "B", 3, 1, "none"),
                    [DefaultTraits EXCEPT !.entry = "intercept", !.interceptor = i,
                                          !.cannotBeIntercepted = immune],
                    0)

\* the worlds a call is made in
BattleScenario(s) ==
    \/ WithdrawScenario(s) \/ FightScenario(s) \/ StatusScenario(s) \/ CivilianScenario(s)
    \/ BombardScenario(s) \/ CityScenario(s) \/ MoveScenario(s) \/ CityOrderScenario(s)
    \/ SweepScenario(s) \/ InterceptionScenario(s)

InitBattle ==
    /\ BattleScenario(bIn)
    /\ bSt = bIn
    /\ bPc = "ready"
    /\ IdleButBattle

\* a call of Battle.attack(attacker, defender)
AttackCall ==
    /\ bPc = "ready"
    /\ bIn.tr.entry = "attack"
    /\ bSt' \in Attack(bSt)
    /\ bPc' = "done"
    /\ UNCHANGED <<bIn, notBattle>>

\* a call of Battle.move_and_attack(attacker, attackable_tile)
MoveAndAttackCall ==
    /\ bPc = "ready"
    /\ bIn.tr.entry = "move"
    /\ bSt' \in MoveAndAttack(bSt)
    /\ bPc' = "done"
    /\ UNCHANGED <<bIn, notBattle>>

\* a call of AirInterception.air_sweep(attacker, attacked_tile)
AirSweepCall ==
    /\ bPc = "ready"
    /\ bIn.tr.entry = "sweep"
    /\ bSt' \in AirSweep(bSt)
    /\ bPc' = "done"
    /\ UNCHANGED <<bIn, notBattle>>

\* a call of AirInterception.try_intercept_air_attack(attacker, tile, civ, defender)
TryInterceptAirAttackCall ==
    /\ bPc = "ready"
    /\ bIn.tr.entry = "intercept"
    /\ bSt' \in TryInterceptAirAttack(bSt)
    /\ bPc' = "intercepted"
    /\ UNCHANGED <<bIn, notBattle>>

NextBattle == AttackCall \/ MoveAndAttackCall \/ AirSweepCall \/ TryInterceptAirAttackCall

SpecBattle == InitBattle /\ [][NextBattle]_vars

(***************************************************************************)
(* Nuke: may_use_nuke and NUKE                                             *)
(*                                                                         *)
(* The nuke belongs to civilization "A".  Tile 1 is the target tile, tile  *)
(* 2 lies inside the blast radius, tile 3 outside.  Health is on the scale *)
(* of 100.  A nuke world nk holds the nuke, the two tiles that are hit     *)
(* (owner and the unit standing there), the other civilizations, and what  *)
(* the call changed or returned.                                           *)
(***************************************************************************)
TargetTile == 1

\* target_tile.get_tiles_in_distance(blast_radius)
HitTiles == {1, 2}

NukeCivs == {"B", "C"}

\* no unit on a tile
NoUnit == [isCity |-> FALSE, civ |-> "none", civilian |-> FALSE, health |-> 0, destroyCalls |-> 0]

\* a unit standing on a tile that is hit
TileUnit(civ, civilian, health) ==
    [isCity |-> FALSE, civ |-> civ, civilian |-> civilian, health |-> health, destroyCalls |-> 0]

\* check_defender_civ that lets barbarians block the strike
\* (the mutation of DefenderCivAllows)
DefenderCivAllowsNoBarbarians(nk, civ) ==
    \/ civ = "none"
    \/ civ = "A" \/ nk.civs[civ].defeated
    \/ nk.civs[civ].known /\ nk.civs[civ].canAttack

\* check_defender_civ of may_use_nuke leaves can_nuke as it is
DefenderCivAllows(nk, civ) ==
    \/ civ = "none"
    \/ civ = "A" \/ nk.civs[civ].defeated
    \/ nk.civs[civ].barbarian
    \/ nk.civs[civ].known /\ nk.civs[civ].canAttack

\* Nuke.may_use_nuke(nuke, target_tile)
MayUseNuke(nk) ==
    IF nk.nuke.tile = TargetTile THEN FALSE
    ELSE IF ~nk.visible THEN FALSE
    ELSE \A t \in HitTiles :
            /\ DefenderCivAllows(nk, nk.tiles[t].owner)
            /\ DefenderCivAllows(nk, nk.tiles[t].unit.civ)

\* try_declare_war inside _declare_war_on_hit_civs
TryDeclareWar(nk, civ) ==
    IF civ # "A" /\ nk.civs[civ].known /\ ~nk.civs[civ].atWar
    THEN [nk EXCEPT !.civs[civ].atWar = TRUE, !.warsDeclared = @ \cup {civ},
                    !.warsAfterShotDown = IF IsDefeated(nk.nuke) THEN @ \cup {civ} ELSE @]
    ELSE nk

\* the owners of the hit tiles
HitOwners(nk) == {nk.tiles[t].owner : t \in HitTiles} \ {"none"}

\* the civilizations other than the attacker's with a unit on a hit tile
HitUnitCivs(nk) == {nk.tiles[t].unit.civ : t \in HitTiles} \ {"none", "A"}

\* war declared on the owners of the hit tiles, one after the other
RECURSIVE DeclareWarOnOwners(_, _)
DeclareWarOnOwners(nk, civs) ==
    IF civs = {} THEN nk
    ELSE LET c == CHOOSE x \in civs : TRUE
         IN  DeclareWarOnOwners(TryDeclareWar(nk, c), civs \ {c})

\* AirInterception.try_intercept_air_attack on the nuke by the units of civ
NukeIntercepted(nk, civ) ==
    IF nk.tr.cannotBeIntercepted \/ ~nk.civs[civ].interceptor THEN {nk}
    ELSE LET n1 == [nk EXCEPT !.civs[civ].interceptorAttacks = @ + 1]
         IN  {n1} \cup
             {[n1 EXCEPT !.nuke = Hit(@, Min(raw, n1.nuke.health)),
                         !.iceptDmg = @ + Min(raw, n1.nuke.health)] :
                 raw \in {0, 30, 100}}

\* the body of the second loop that gives up once the nuke is shot down
\* (the mutation of DeclareWarOnUnitCiv)
DeclareWarOnUnitCivWhileFlying(nk, c) ==
    IF IsDefeated(nk.nuke) THEN {nk}
    ELSE LET n1 == TryDeclareWar(nk, c)
         IN  IF n1.nuke.air THEN NukeIntercepted(n1, c) ELSE {n1}

\* the body of the second loop of _declare_war_on_hit_civs for one civilization
DeclareWarOnUnitCiv(nk, c) ==
    LET n1 == TryDeclareWar(nk, c)
    IN  IF n1.nuke.air /\ ~IsDefeated(n1.nuke) THEN NukeIntercepted(n1, c) ELSE {n1}

\* the second loop of _declare_war_on_hit_civs, over the civilizations in any order
RECURSIVE DeclareWarOnUnitCivs(_, _)
DeclareWarOnUnitCivs(nk, civs) ==
    IF civs = {} THEN {nk}
    ELSE UNION {UNION {DeclareWarOnUnitCivs(a, civs \ {c}) : a \in DeclareWarOnUnitCiv(nk, c)} :
                   c \in civs}

\* Nuke._declare_war_on_hit_civs
DeclareWarOnHitCivs(nk) ==
    DeclareWarOnUnitCivs(DeclareWarOnOwners(nk, HitOwners(nk)), HitUnitCivs(nk))

\* Nuke._get_nuke_damage: the values it can return, the random terms at their ends
GetNukeDamage(strength, isGroundZero) ==
    IF isGroundZero \/ strength >= 2 THEN {100}
    ELSE IF strength = 1 THEN {30 + r1 + r2 : r1 \in {0, 39}, r2 \in {0, 39}}
    ELSE {20 + r : r \in {0, 29}}

\* the damage of _do_nuke_explosion_for_tile to a unit off a city centre:
\* int(nuke damage * modifier from missing resources + 1.0)
ExplosionDamages(nk, isGroundZero) ==
    {(d * nk.tr.damagePercent) \div 100 + 1 : d \in GetNukeDamage(nk.nuke.strength, isGroundZero)}

\* the explosion with civilians taking the damage like any unit (the mutation of ExplodeUnit)
ExplodeUnitScaledCivilians(unit, damage) ==
    IF unit.civ = "none" THEN unit ELSE Hit(unit, damage)

\* what the explosion does to one unit on a hit tile
ExplodeUnit(unit, damage) ==
    IF unit.civ = "none" THEN unit
    ELSE IF unit.civilian
         THEN IF unit.health - damage <= 40 THEN Destroy(unit) ELSE unit
         ELSE Hit(unit, damage)

\* the loop over hit_tiles of Nuke.NUKE: the units on them, the nuke among
\* them when it stands inside the blast
NukeExplosion(nk) ==
    {[nk EXCEPT !.tiles[1].unit = ExplodeUnit(@, d1),
                !.tiles[2].unit = ExplodeUnit(@, d2),
                !.nuke = IF nk.nuke.tile \in HitTiles THEN Hit(@, dn) ELSE @] :
        d1 \in ExplosionDamages(nk, TRUE), d2 \in ExplosionDamages(nk, FALSE),
        dn \in ExplosionDamages(nk, nk.nuke.tile = TargetTile)}

\* the self-destruct step that leaves a unit inside the blast to the blast
\* (the mutation of NukeSelfDestruct)
NukeSelfDestructOutsideBlast(nk) ==
    IF nk.tr.selfDestructs /\ nk.nuke.tile \notin HitTiles
    THEN [nk EXCEPT !.nuke = Destroy(@)] ELSE nk

\* Nuke.NUKE: if attacker.unit.has_unique(SelfDestructs): attacker.unit.destroy()
NukeSelfDestruct(nk) ==
    IF nk.tr.selfDestructs THEN [nk EXCEPT !.nuke = Destroy(@)] ELSE nk

\* Nuke.NUKE after the explosion e
AfterExplosion(e) ==
    LET e1 == NukeSelfDestruct(e)
        e2 == [e1 EXCEPT !.penalties = @ + 1]
    IN  IF ~IsDefeated(e2.nuke)
        THEN [e2 EXCEPT !.nuke.attacksThisTurn = @ + 1, !.path = "detonated"]
        ELSE [e2 EXCEPT !.path = "detonated"]

\* Nuke.NUKE(attacker, target_tile): every world the call can leave
NUKE(nk) ==
    IF nk.nuke.strength < 0 THEN {[nk EXCEPT !.path = "noStrength"]}
    ELSE UNION {IF IsDefeated(n.nuke) THEN {[n EXCEPT !.path = "shotDown"]}
                ELSE {AfterExplosion(e) :
                         e \in NukeExplosion([n EXCEPT !.nuke.attacksSince = @ + 1])} :
                   n \in DeclareWarOnHitCivs(nk)}

\* a civilization as the nuke's civilization sees it
NukeCiv(defeated, barbarian, known, canAttack, atWar, interceptor) ==
    [defeated |-> defeated, barbarian |-> barbarian, known |-> known,
     canAttack |-> canAttack, atWar |-> atWar, interceptor |-> interceptor,
     interceptorAttacks |-> 0]

\* the nuclear unit
NukeUnit(tile, health, air, strength) ==
    [isCity |-> FALSE, tile |-> tile, health |-> health, air |-> air, strength |-> strength,
     destroyCalls |-> 0, attacksThisTurn |-> 0, attacksSince |-> 0]

\* the world before a call
NewNukeWorld(entry, nuke, visible, tiles, civs, tr) ==
    [entry |-> entry, nuke |-> nuke, visible |-> visible, tiles |-> tiles, civs |-> civs,
     tr |-> tr, warsDeclared |-> {}, warsAfterShotDown |-> {}, iceptDmg |-> 0, penalties |-> 0,
     result |-> "none", path |-> "none"]

NukeTraits(selfDestructs, cannotBeIntercepted, damagePercent) ==
    [selfDestructs |-> selfDestructs, cannotBeIntercepted |-> cannotBeIntercepted,
     damagePercent |-> damagePercent]

\* the worlds may_use_nuke is asked about
MayUseScenario(s) ==
    \E nt \in 1..3, vis \in BOOLEAN,
       bd \in BOOLEAN, bb \in BOOLEAN, bk \in BOOLEAN, bc \in BOOLEAN, cc \in BOOLEAN,
       o1 \in {"none", "A", "B", "C"}, u1 \in {"none", "A", "B", "C"},
       o2 \in {"none", "C"}, u2 \in {"none", "B", "C"} :
        s = NewNukeWorld("mayUse", NukeUnit(nt, 100, TRUE, 2), vis,
                [t \in HitTiles |-> IF t = 1 THEN [owner |-> o1, unit |-> TileUnit(u1, FALSE, 100)]
                                    ELSE [owner |-> o2, unit |-> TileUnit(u2, FALSE, 100)]],
                [c \in NukeCivs |-> IF c = "B" THEN NukeCiv(bd, bb, bk, bc, bc, FALSE)
                                    ELSE NukeCiv(FALSE, FALSE, TRUE, cc, cc, FALSE)],
                NukeTraits(TRUE, FALSE, 100))

\* strikes that interceptors may meet
InterceptedStrikeScenario(s) ==
    \E nt \in 2..3, h \in {40, 100}, air \in BOOLEAN, str \in {-1, 1, 2},
       sd \in BOOLEAN, cbi \in BOOLEAN,
       bk \in BOOLEAN, bw \in BOOLEAN, bi \in BOOLEAN, ci \in BOOLEAN,
       o1 \in {"none", "B"}, u2 \in {"none", "C"} :
        s = NewNukeWorld("NUKE", NukeUnit(nt, h, air, str), TRUE,
                [t \in HitTiles |-> IF t = 1 THEN [owner |-> o1, unit |-> TileUnit("B", FALSE, 100)]
                                    ELSE [owner |-> "none", unit |-> TileUnit(u2, FALSE, 100)]],
                [c \in NukeCivs |-> IF c = "B" THEN NukeCiv(FALSE, FALSE, bk, bw, bw, bi)
                                    ELSE NukeCiv(FALSE, FALSE, TRUE, TRUE, TRUE, ci)],
                NukeTraits(sd, cbi, 100))

\* strikes on units of every kind
ExplosionScenario(s) ==
    \E nt \in 2..3, air \in BOOLEAN, str \in 0..2, sd \in BOOLEAN, pct \in {50, 100},
       u1 \in {"none", "A", "B"}, c1 \in BOOLEAN, h1 \in {45, 100},
       u2 \in {"none", "C"}, c2 \in BOOLEAN, h2 \in {45, 100} :
        s = NewNukeWorld("NUKE", NukeUnit(nt, 100, air, str), TRUE,
                [t \in HitTiles |-> IF t = 1 THEN [owner |-> "none", unit |-> TileUnit(u1, c1, h1)]
                                    ELSE [owner |-> "C", unit |-> TileUnit(u2, c2, h2)]],
                [c \in NukeCivs |-> NukeCiv(FALSE, FALSE, TRUE, TRUE, TRUE, FALSE)],
                NukeTraits(sd, FALSE, pct))

InitNuke ==
    /\ MayUseScenario(nkIn) \/ InterceptedStrikeScenario(nkIn) \/ ExplosionScenario(nkIn)
    /\ nkSt = nkIn
    /\ nkPc = "ready"
    /\ IdleButNuke

\* a call of Nuke.may_use_nuke(nuke, target_tile)
MayUseNukeCall ==
    /\ nkPc = "ready"
    /\ nkIn.entry = "mayUse"
    /\ nkSt' = [nkSt EXCEPT !.result = IF MayUseNuke(nkSt) THEN "true" ELSE "false"]
    /\ nkPc' = "done"
    /\ UNCHANGED <<nkIn, notNuke>>

\* a call of Nuke.NUKE(attacker, target_tile)
NukeCall ==
    /\ nkPc = "ready"
    /\ nkIn.entry = "NUKE"
    /\ nkSt' \in NUKE(nkSt)
    /\ nkPc' = "done"
    /\ UNCHANGED <<nkIn, notNuke>>

NextNuke == MayUseNukeCall \/ NukeCall

SpecNuke == InitNuke /\ [][NextNuke]_vars

(***************************************************************************)
(* Seeded rolls: the damage randomness factor and the prize-ships roll     *)
(*                                                                         *)
(* rnd holds the state of the module-level generator behind random.random  *)
(* (global), the turn number, the hashes of the attacker's and defender's  *)
(* tile positions, and the rolls evaluated so far with what they read.     *)
(***************************************************************************)
\* the states of the module-level generator
GlobalStreamStates == 0..2

\* one draw from the module-level generator: its next state
StepGlobal(global) == (global + 1) % 3

\* the roll drawn from the module-level generator, as random.random() would
\* (the mutation of DrawSeeded)
DrawFromGlobal(global, seed) == [value |-> global % 10, global |-> StepGlobal(global)]

\* random.Random(random_seed).random(): a generator of its own, seeded; the
\* value drawn and the module-level generator afterwards
DrawSeeded(global, seed) == [value |-> SeededRandom(seed), global |-> global]

\* the random_seed of each roll: game_info.turns * position.hash_code() of the
\* attacker's tile (damage to attacker) or of the defender's tile (the others)
RandomSeed(kind, r) ==
    IF kind = "damage to attacker" THEN r.turns * r.attHash ELSE r.turns * r.defHash

RollKinds == {"damage to attacker", "damage to defender", "prize ships"}

InitRnd ==
    /\ rnd \in [global : GlobalStreamStates, turns : 1..MaxSeedPart,
                attHash : 1..MaxSeedPart, defHash : 1..MaxSeedPart, rolls : {<<>>}]
    /\ IdleButRnd

\* one evaluation of the randomness factor (calculate_damage_to_attacker /
\* calculate_damage_to_defender without randomness_factor) or of the
\* prize-ships capture roll
EvaluateRoll ==
    /\ rnd.turns > 0 /\ Len(rnd.rolls) < Cardinality(RollKinds)
    /\ \E kind \in RollKinds :
          LET draw == DrawSeeded(rnd.global, RandomSeed(kind, rnd))
          IN  rnd' = [rnd EXCEPT !.global = draw.global,
                                 !.rolls = Append(@, [kind |-> kind, value |-> draw.value,
                                                      globalAt |-> rnd.global])]
    /\ UNCHANGED notRnd

\* a draw from the module-level generator somewhere else, as in the loop of Battle.take_damage
GlobalDraw ==
    /\ rnd.turns > 0
    /\ rnd' = [rnd EXCEPT !.global = StepGlobal(@)]
    /\ UNCHANGED notRnd

NextRnd == EvaluateRoll \/ GlobalDraw

SpecRnd == InitRnd /\ [][NextRnd]_vars

(***************************************************************************)
(* BattleDamage strengths.  Strengths and the final bonus are kept in      *)
(* hundredths, so that base * (1 + sum/100) is the integer                 *)
(* base * (100 + sum).                                                     *)
(***************************************************************************)
PercentScale == 100

\* what modifiers_to_final_bonus starts from: 1.0
One == PercentScale

BaseStrengths == 0..MaxStrength
ModifierValues == {-150, -100, -40, 0, 50}
AttackModifierNames == {"Flanking", "Across river"}
DefenceModifierNames == {"Tile", "Fortification"}

RECURSIVE SumOfValues(_, _)
SumOfValues(modifiers, names) ==
    IF names = {} THEN 0
    ELSE LET name == CHOOSE n \in names : TRUE
         IN  modifiers[name] + SumOfValues(modifiers, names \ {name})

\* BattleDamage.modifiers_to_final_bonus, in hundredths
ModifiersToFinalBonus(modifiers) ==
    One + SumOfValues(modifiers, DOMAIN modifiers)

\* the strength without the floor (the mutation of FlooredStrength)
UnflooredStrength(base, modifiers) == base * ModifiersToFinalBonus(modifiers)

\* max(1.0, base * modifier), in hundredths
FlooredStrength(base, modifiers) ==
    Max(One, base * ModifiersToFinalBonus(modifiers))

\* BattleDamage.get_attacking_strength
GetAttackingStrength(d) == FlooredStrength(d.attBase, d.attMods)

\* BattleDamage.get_defending_strength
GetDefendingStrength(d) == FlooredStrength(d.defBase, d.defMods)

InitDmg ==
    /\ \E attBase \in BaseStrengths, defBase \in BaseStrengths,
          attMods \in [AttackModifierNames -> ModifierValues],
          defMods \in [DefenceModifierNames -> ModifierValues] :
            dmg = [stage |-> "inputs", attBase |-> attBase, defBase |-> defBase,
                   attMods |-> attMods, defMods |-> defMods,
                   attStr |-> 0, defStr |-> 0, hasAtt |-> FALSE, hasDef |-> FALSE,
                   ratioNum |-> 0, ratioDen |-> 0]
    /\ IdleButDmg

GetAttackingStrengthCall ==
    /\ dmg.stage = "inputs" /\ ~dmg.hasAtt
    /\ dmg' = [dmg EXCEPT !.attStr = GetAttackingStrength(dmg), !.hasAtt = TRUE]
    /\ UNCHANGED notDmg

GetDefendingStrengthCall ==
    /\ dmg.stage = "inputs" /\ ~dmg.hasDef
    /\ dmg' = [dmg EXCEPT !.defStr = GetDefendingStrength(dmg), !.hasDef = TRUE]
    /\ UNCHANGED notDmg

\* the ratio of calculate_damage_to_attacker / calculate_damage_to_defender,
\* kept as numerator and denominator
StrengthRatio ==
    /\ dmg.stage = "inputs" /\ dmg.hasAtt /\ dmg.hasDef
    /\ dmg' = [dmg EXCEPT !.stage = "ratio", !.ratioNum = dmg.attStr,
                          !.ratioDen = dmg.defStr]
    /\ UNCHANGED notDmg

NextDmg == GetAttackingStrengthCall \/ GetDefendingStrengthCall \/ StrengthRatio

SpecDmg == InitDmg /\ [][NextDmg]_vars

(***************************************************************************)
(* Battle.conquer_city, the ownership functions of CityConquestFunctions   *)
(* and TargetHelper.contains_attackable_enemy                              *)
(*                                                                         *)
(* One city of civilization "B" is conquered by a unit of civilization     *)
(* "A"; "F" is a third civilization that may have founded the city.  The   *)
(* plunder and trigger uniques of the ruleset are left out.                *)
(***************************************************************************)
ConquestCivs == {"A", "B", "F"}

\* no contains_attackable_enemy call yet
NoQuery == [made |-> FALSE, civ |-> "none", atWar |-> FALSE, embarkedBlocked |-> FALSE,
            laterBlocked |-> FALSE, flagged |-> FALSE, result |-> FALSE]

NoCalls == [destroyCity |-> 0, puppet |-> 0, annex |-> 0, liberate |-> 0, automate |-> 0,
            popups |-> 0, notifications |-> 0]

\* the city, its centre tile and the attacker's civilization before conquer_city
NewConquest(tr) ==
    [stage |-> "standing", tr |-> tr,
     city |-> [exists |-> TRUE, owner |-> "B", previousOwner |-> "none",
               hasJustBeenConquered |-> FALSE, isPuppet |-> FALSE, isBeingRazed |-> FALSE],
     military |-> tr.military, civilian |-> tr.civilian,
     calls |-> NoCalls, query |-> NoQuery]

\* CityConquestFunctions.move_to_civ
MoveToCiv(c, newCiv) ==
    [c EXCEPT !.city.previousOwner = c.city.owner,
              !.city.owner = newCiv,
              !.city.hasJustBeenConquered = FALSE,
              !.city.isBeingRazed = FALSE]

\* CityConquestFunctions._conquer_city: plunder, move_to_civ, resistance
InnerConquerCity(c, receivingCiv) ==
    [MoveToCiv(c, receivingCiv) EXCEPT !.calls.notifications = @ + 1]

\* CityConquestFunctions.puppet_city
PuppetCity(c, conqueringCiv) ==
    [InnerConquerCity(c, conqueringCiv) EXCEPT !.city.isPuppet = TRUE, !.calls.puppet = @ + 1]

\* CityConquestFunctions.annex_city
AnnexCity(c) == [c EXCEPT !.city.isPuppet = FALSE, !.calls.annex = @ + 1]

\* CityConquestFunctions.liberate_city for a city with a founding civilization
LiberateCity(c) ==
    [InnerConquerCity(c, c.tr.foundingCiv) EXCEPT !.city.isPuppet = FALSE,
                                                 !.calls.liberate = @ + 1]

\* City.destroy_city(True)
DestroyCity(c) == [c EXCEPT !.city.exists = FALSE, !.calls.destroyCity = @ + 1]

\* the liberation test of automate_city_conquer
AutomationLiberates(c) ==
    /\ ~c.tr.diplomaticMarriage
    /\ c.tr.foundingIsCityState
    /\ c.city.owner # "A"
    /\ c.tr.foundingCiv # "A"
    /\ ~c.tr.atWarWithFounding
    /\ c.tr.valueAlliancePositive

\* Battle.automate_city_conquer
AutomateCityConquer(c) ==
    LET c0 == [c EXCEPT !.calls.automate = @ + 1]
    IN  IF AutomationLiberates(c0) THEN LiberateCity(c0)
        ELSE LET c1 == PuppetCity(c0, "A")
             IN  IF /\ c.tr.smallCity \/ c.tr.attackerIsCityState
                    /\ c.tr.foundingCiv # "A"
                    /\ c.tr.canBeDestroyed
                 THEN [(IF ~c.tr.mayNotAnnex THEN AnnexCity(c1) ELSE c1)
                          EXCEPT !.city.isBeingRazed = TRUE]
                 ELSE c1

\* the units on the centre tile at conquest: the military unit is destroyed,
\* the civilian captured or destroyed
ClearCentreTile(c) ==
    [c EXCEPT !.military = "none",
              !.civilian = IF @ = "none" THEN "none"
                           ELSE IF c.tr.civilianCapture = "captured" THEN "A" ELSE "none"]

\* the branch of conquer_city that asks the player, taken for every
\* attacker that is not an automated civilization
\* (the mutation of AsksPlayer)
AsksPlayerAlways(c) == c.tr.human \/ ~c.tr.fullAutoPlay

\* conquer_city asks the player: a human attacker outside full auto-play
AsksPlayer(c) == c.tr.human /\ ~c.tr.fullAutoPlay

\* Battle.conquer_city(city, attacker)
BattleConquerCity(c) ==
    LET c0 == ClearCentreTile([c EXCEPT !.stage = "conquered",
                                        !.calls.notifications = @ + 1,
                                        !.city.hasJustBeenConquered = TRUE])
    IN  IF c.tr.barbarian \/ c.tr.oneCityChallenger THEN DestroyCity(c0)
        ELSE IF c.tr.originalCapital /\ c.tr.foundingCiv = "A"
             THEN AnnexCity(PuppetCity(c0, "A"))
        ELSE IF AsksPlayer(c)
             THEN [c0 EXCEPT !.calls.popups = @ + 1]
        ELSE AutomateCityConquer(c0)

\* Battle.get_map_combatant_of_tile for the centre tile: the owner of what it
\* returns, and whether it is a city
TileCombatant(c) ==
    IF c.city.exists THEN [civ |-> c.city.owner, isCity |-> TRUE]
    ELSE IF c.military # "none" THEN [civ |-> c.military, isCity |-> FALSE]
    ELSE [civ |-> c.civilian, isCity |-> FALSE]

\* contains_attackable_enemy without the test of has_just_been_conquered
\* (the mutation of ContainsAttackableEnemy)
ContainsAttackableEnemyNoFlag(c, q) ==
    IF q.embarkedBlocked THEN FALSE
    ELSE IF TileCombatant(c).civ = "none" THEN FALSE
    ELSE IF TileCombatant(c).civ = q.civ THEN FALSE
    ELSE IF ~q.atWar THEN FALSE
    ELSE ~q.laterBlocked

\* TargetHelper.contains_attackable_enemy(centre tile, combatant); the tests
\* on the combatant's own abilities are the two "blocked" inputs
ContainsAttackableEnemy(c, q) ==
    IF q.embarkedBlocked THEN FALSE
    ELSE IF TileCombatant(c).civ = "none" THEN FALSE
    ELSE IF TileCombatant(c).civ = q.civ THEN FALSE
    ELSE IF TileCombatant(c).isCity /\ c.city.hasJustBeenConquered THEN FALSE
    ELSE IF ~q.atWar THEN FALSE
    ELSE ~q.laterBlocked

ConquestDefaults ==
    [barbarian |-> FALSE, oneCityChallenger |-> FALSE, originalCapital |-> FALSE,
     foundingCiv |-> "B", human |-> FALSE, fullAutoPlay |-> FALSE,
     diplomaticMarriage |-> FALSE, foundingIsCityState |-> FALSE,
     atWarWithFounding |-> FALSE, valueAlliancePositive |-> TRUE,
     smallCity |-> FALSE, attackerIsCityState |-> FALSE, canBeDestroyed |-> TRUE,
     mayNotAnnex |-> FALSE, military |-> "none", civilian |-> "none",
     civilianCapture |-> "captured"]

\* conquests by every kind of attacker
DispositionScenario(c) ==
    \E barb \in BOOLEAN, occ \in BOOLEAN, cap \in BOOLEAN, fc \in ConquestCivs,
       human \in BOOLEAN, auto \in BOOLEAN, mil \in {"none", "B"} :
        c = NewConquest([ConquestDefaults EXCEPT
                            !.barbarian = barb, !.oneCityChallenger = occ,
                            !.originalCapital = cap, !.foundingCiv = fc,
                            !.human = human, !.fullAutoPlay = auto, !.military = mil])

\* conquests that automate_city_conquer decides
AutomationScenario(c) ==
    \E fc \in ConquestCivs, dm \in BOOLEAN, cs \in BOOLEAN, war \in BOOLEAN,
       small \in BOOLEAN, acs \in BOOLEAN, cbd \in BOOLEAN, mna \in BOOLEAN,
       civ \in {"none", "B"}, cc \in {"captured", "destroyed"} :
        c = NewConquest([ConquestDefaults EXCEPT
                            !.foundingCiv = fc, !.diplomaticMarriage = dm,
                            !.foundingIsCityState = cs, !.atWarWithFounding = war,
                            !.smallCity = small, !.attackerIsCityState = acs,
                            !.canBeDestroyed = cbd, !.mayNotAnnex = mna,
                            !.civilian = civ, !.civilianCapture = cc])

InitConquest ==
    /\ DispositionScenario(cq) \/ AutomationScenario(cq)
    /\ IdleButCq

\* a call of Battle.conquer_city on the standing city
ConquerCityCall ==
    /\ cq.stage = "standing"
    /\ cq' = BattleConquerCity(cq)
    /\ UNCHANGED notCq

\* the player's answer to the CityConquered alert is pending
DecisionPending ==
    /\ cq.stage = "conquered" /\ cq.calls.popups = 1
    /\ cq.city.owner = "B" /\ cq.city.hasJustBeenConquered

\* the player keeps the city as a puppet: puppet_city
PuppetDecision ==
    /\ DecisionPending
    /\ cq' = [PuppetCity(cq, "A") EXCEPT !.stage = "decided"]
    /\ UNCHANGED notCq

\* the player annexes the city: puppet_city, then annex_city
AnnexDecision ==
    /\ DecisionPending
    /\ cq' = [AnnexCity(PuppetCity(cq, "A")) EXCEPT !.stage = "decided"]
    /\ UNCHANGED notCq

\* the player gives the city back to the civilization that founded it: liberate_city
LiberateDecision ==
    /\ DecisionPending /\ cq.tr.foundingCiv # "A"
    /\ cq' = [LiberateCity(cq) EXCEPT !.stage = "decided"]
    /\ UNCHANGED notCq

\* a call of TargetHelper.contains_attackable_enemy on the centre tile
ContainsAttackableEnemyCall ==
    /\ cq.stage \in {"standing", "conquered", "decided"}
    /\ \E civ \in ConquestCivs, atWar \in BOOLEAN, eb \in BOOLEAN, lb \in BOOLEAN :
          /\ ~(eb /\ lb)
          /\ LET q == [made |-> TRUE, civ |-> civ, atWar |-> atWar, embarkedBlocked |-> eb,
                        laterBlocked |-> lb,
                        flagged |-> cq.city.exists /\ cq.city.hasJustBeenConquered,
                        result |-> FALSE]
             IN  cq' = [cq EXCEPT !.query = [q EXCEPT !.result = ContainsAttackableEnemy(cq, q)]]
    /\ UNCHANGED notCq

NextConquest ==
    \/ ConquerCityCall \/ PuppetDecision \/ AnnexDecision \/ LiberateDecision
    \/ ContainsAttackableEnemyCall

SpecConquest == InitConquest /\ [][NextConquest]_vars

(***************************************************************************)
(* CityCombatant.take_damage call sequences                                *)
(***************************************************************************)
InitCity ==
    /\ cityHealth \in 1..MaxCityHealth
    /\ cityLastDamage = -1
    /\ IdleButCity

\* one CityCombatant.take_damage(damage) call with a non-negative amount
CityTakeDamageCall ==
    \E damage \in 0..MaxDamage :
        /\ cityHealth' = CityTakeDamage(cityHealth, damage)
        /\ cityLastDamage' = damage
        /\ UNCHANGED notCity

NextCity == CityTakeDamageCall

SpecCity == InitCity /\ [][NextCity]_vars

\* C1: after every CityCombatant.take_damage call with a non-negative amount,
\* on a city that started at health >= 1, the city's health is >= 1; damage
\* that would take it below 1 leaves it at exactly 1.
C1_CityHealthFloor ==
    [][ /\ cityHealth' >= 1
        /\ (cityHealth - cityLastDamage' < 1 => cityHealth' = 1)
        /\ (cityHealth - cityLastDamage' >= 1 => cityHealth' = cityHealth - cityLastDamage')
      ]_vars

\* a call whose damage exceeded the remaining health has happened
C1_Witness == cityLastDamage > 1 /\ cityHealth = 1

ExLoopDone == exPc = "done" /\ exHist.path = "loop"

\* C2: the alternating HP-exchange loop of Battle.take_damage terminates, it
\* runs at most potentialDamageToDefender + potentialDamageToAttacker
\* iterations, and each iteration removes exactly 1 from exactly one budget.
C2_LoopTerminatesWithinBudget ==
    /\ [](exHist.path = "loop" =>
            /\ exHist.iters <= exHist.initDef + exHist.initAtt
            /\ exHist.iters + exPotDef + exPotAtt = exHist.initDef + exHist.initAtt)
    /\ [][exHist'.iters = exHist.iters + 1 =>
            \/ exPotDef' = exPotDef - 1 /\ exPotAtt' = exPotAtt
            \/ exPotAtt' = exPotAtt - 1 /\ exPotDef' = exPotDef]_vars
    /\ <>(exPc = "done")

\* a loop that used up both budgets, hitting both sides
C2_Witness ==
    /\ ExLoopDone
    /\ exHist.initDef >= 1 /\ exHist.initAtt >= 1
    /\ exHist.iters = exHist.initDef + exHist.initAtt

\* C3 as stated: when the loop ends, at least one remaining budget is 0.
C3_OneBudgetZeroAtExit ==
    ExLoopDone => (exPotDef = 0 \/ exPotAtt = 0)

\* C3 amended: when the loop ends, either both remaining budgets are 0, or it
\* stopped early because the combatant hit last is defeated.
C3_BudgetsZeroOrDefeatedAtExit ==
    ExLoopDone =>
        \/ exPotDef = 0 /\ exPotAtt = 0 /\ ~exHist.broke
        \/ exHist.broke /\ (IsDefeated(exAttacker) \/ IsDefeated(exDefender))

\* the loop stopped on a defeated defender with both budgets still positive
C3_Witness ==
    /\ ExLoopDone
    /\ exHist.broke
    /\ IsDefeated(exDefender)
    /\ exPotDef > 0 /\ exPotAtt > 0

\* C4: in one try_capture_military_unit call, whatever subset of the three
\* capture triggers fires, spawn_captured_unit is invoked at most once and at
\* most one replacement unit is spawned.
C4_SpawnAtMostOnce ==
    [][ /\ capCall'.spawnCalls <= 1
        /\ capSpawned' <= capSpawned + 1
        /\ (capCall'.result => capSpawned' = capSpawned + 1) ]_vars

\* a call in which all three triggers fired and the unit was spawned
C4_Witness ==
    /\ capCall.prize /\ capCall.encampment /\ capCall.defeating
    /\ capCall.spawnCalls = 1 /\ capCall.result

\* a call of Battle.attack or Battle.move_and_attack has returned
BattleDone == bPc = "done"

\* Battle.attack ran on a melee unit attacking a unit that can withdraw and has a
\* valid neighbour tile away from the attacker
C5_Case ==
    /\ BattleDone /\ bSt.attackCalls = 1
    /\ ~bIn.att.isCity /\ IsMelee(bIn.att)
    /\ ~bIn.def.isCity /\ bIn.tr.defWithdraws /\ bIn.tr.defFlags = {}
    /\ FirstCandidateTiles(bIn) # {}

\* C5 as stated: in that case the attack returns DamageDealt(0,0), no health
\* changes, the defender ends on a neighbour of its former tile that is not
\* adjacent to the attacker, and the attacker's attacks_this_turn and
\* movement are consumed
C5_WithdrawConsumesMovement ==
    C5_Case =>
        /\ bSt.ret = DamageNone
        /\ bSt.att.health = bIn.att.health /\ bSt.def.health = bIn.def.health
        /\ bSt.def.tile \in Neighbors(bIn.def.tile)
        /\ bSt.def.tile \notin Neighbors(bIn.att.tile) \cup {bIn.att.tile}
        /\ bSt.att.attacksThisTurn = bIn.att.attacksThisTurn + 1
        /\ (bIn.att.movement > 0 => bSt.att.movement < bIn.att.movement)

\* C5 (amended): in that case either the attacker is an air unit shot down
\* by interception and nothing else happens, or the attack returns
\* DamageDealt(0,0), the defender's health is unchanged, the attacker has lost
\* only interception damage (none unless it is an air unit), the defender
\* ends on a neighbour of its former tile that is not adjacent to the
\* attacker, attacks_this_turn went up by one, and the movement is 0 if the
\* unit can neither move after attacking nor attack again, else unchanged
\* if it moves like air units, else one point less (not below 0)
C5_WithdrawOutcome ==
    C5_Case =>
        \/ /\ bSt.path = "intercepted"
           /\ IsAirUnit(bIn.att) /\ IsDefeated(bSt.att)
           /\ bSt.def = bIn.def
           /\ bSt.att.attacksThisTurn = bIn.att.attacksThisTurn
        \/ /\ bSt.path = "withdrew"
           /\ bSt.ret = DamageNone
           /\ bSt.def.health = bIn.def.health
           /\ bSt.att.health = bIn.att.health - bSt.iceptDmg
           /\ (~IsAirUnit(bIn.att) => bSt.iceptDmg = 0)
           /\ bSt.def.tile \in Neighbors(bIn.def.tile)
           /\ bSt.def.tile \notin Neighbors(bIn.att.tile) \cup {bIn.att.tile}
           /\ bSt.att.attacksThisTurn = bIn.att.attacksThisTurn + 1
           /\ bSt.att.movement =
                 IF bIn.tr.canMoveAfter \/ bIn.tr.maxAttacks > bIn.att.attacksThisTurn + 1
                 THEN IF bIn.tr.movesLikeAir THEN bIn.att.movement
                      ELSE Max(0, bIn.att.movement - 1)
                 ELSE 0

\* the defender withdrew from a unit that moves like air units and may move
\* after attacking: its movement points are all still there
C5_Witness ==
    /\ C5_Case /\ bSt.path = "withdrew"
    /\ bIn.tr.movesLikeAir /\ bIn.tr.canMoveAfter
    /\ bIn.att.movement > 0 /\ bSt.att.movement = bIn.att.movement
    /\ bSt.att.attacksThisTurn = 1 /\ bSt.def.tile = 5

\* Battle.attack ran on a melee, non-barbarian unit that may capture cities,
\* attacking a city at health 1
C6_Case ==
    /\ BattleDone /\ bSt.attackCalls = 1
    /\ ~bIn.att.isCity /\ IsMelee(bIn.att)
    /\ ~bIn.tr.attBarbarian /\ ~bIn.tr.cannotCaptureCities
    /\ bIn.def.isCity /\ bIn.def.health = 1

\* C6 as stated: in that case Battle.conquer_city is invoked on the city
C6_ConquerCityInvoked == C6_Case => bSt.conquerCalls = 1

\* C6 (amended): in that case Battle.conquer_city is invoked on the city
\* exactly once, unless the attacker is an air unit destroyed by
\* interception on the way in: then the attack ends before the exchange and
\* the city is not conquered
C6_ConquerCityUnlessShotDown ==
    C6_Case =>
        \/ /\ bSt.path = "intercepted"
           /\ IsAirUnit(bIn.att) /\ IsDefeated(bSt.att)
           /\ bSt.conquerCalls = 0 /\ bSt.exchanges = 0 /\ bSt.def = bIn.def
        \/ /\ bSt.path = "full"
           /\ bSt.conquerCalls = 1 /\ bSt.cityJustConquered
           /\ bSt.raids = 0 /\ bSt.def.health = 1

\* a melee unit conquered a city that stood at health 1
C6_Witness ==
    /\ C6_Case /\ bSt.path = "full" /\ bSt.conquerCalls = 1
    /\ ~IsDefeated(bSt.att) /\ bSt.exchanges = 1

\* C7 as stated: Battle.move_and_attack on a tile with no combatant, or with
\* a combatant of the attacker's own civilization, returns with zero damage
\* and everything as it was: the attacker's tile, movement and attack
\* counters, and every other unit and city
C7_InvalidTargetNoMutation ==
    (BattleDone /\ bIn.tr.entry = "move" /\ bIn.tr.target \in {"none", "own"}) =>
        /\ bSt.att = bIn.att
        /\ bSt.def = bIn.def
        /\ bSt.ret = DamageNone /\ bSt.dealt = DamageNone
        /\ bSt.attackCalls = 0 /\ bSt.nukeCalls = 0
        /\ bSt.civAttacksSince = bIn.civAttacksSince

\* Battle.move_and_attack returned and the staging move had not put the
\* unit on tile_to_attack_from
C8_Case ==
    /\ BattleDone /\ bIn.tr.entry = "move"
    /\ ~bIn.att.isCity
    /\ bSt.stagedAt # 0 /\ bSt.stagedAt # bIn.tr.staging

\* C8: in that case the order is aborted: neither Battle.attack nor
\* Nuke.NUKE was invoked, no health changed, and no attack was recorded for
\* the attacker
C8_AbortWhenNotInPosition ==
    C8_Case =>
        /\ bSt.path = "aborted"
        /\ bSt.attackCalls = 0 /\ bSt.nukeCalls = 0 /\ bSt.exchanges = 0
        /\ bSt.att.health = bIn.att.health
        /\ bSt.def = bIn.def
        /\ bSt.att.attacksSince = bIn.att.attacksSince
        /\ bSt.att.attacksThisTurn = bIn.att.attacksThisTurn
        /\ bSt.ret = DamageNone

\* a unit bound for tile 4 was stopped on tile 2, with an enemy on the target
C8_Witness ==
    /\ C8_Case /\ bIn.tr.target = "enemy"
    /\ bIn.att.tile = 1 /\ bIn.tr.staging = 4 /\ bSt.att.tile = 2
    /\ bSt.att.movement < bIn.att.movement /\ bSt.path = "aborted"

\* a call of Nuke.may_use_nuke or Nuke.NUKE has returned
NukeDone == nkPc = "done"

\* a civilization that is not the attacker, not defeated, not barbarian, and
\* that the attacker's diplomacy manager cannot attack
C9_BlockingCiv(civ) ==
    /\ civ \in NukeCivs
    /\ ~nkIn.civs[civ].defeated /\ ~nkIn.civs[civ].barbarian
    /\ ~(nkIn.civs[civ].known /\ nkIn.civs[civ].canAttack)

\* C9: may_use_nuke returns false when the target tile is the nuke's own
\* tile, when it is not visible to the nuke's civilization, or when a tile
\* in the blast radius is owned by or holds a combatant of a civilization
\* that blocks the strike; it returns true otherwise; and it changes nothing
C9_MayUseNuke ==
    (NukeDone /\ nkIn.entry = "mayUse") =>
        /\ nkSt.result = "false" <=>
              \/ nkIn.nuke.tile = TargetTile
              \/ ~nkIn.visible
              \/ \E t \in HitTiles : \/ C9_BlockingCiv(nkIn.tiles[t].owner)
                                     \/ C9_BlockingCiv(nkIn.tiles[t].unit.civ)
        /\ nkSt.result \in {"true", "false"}
        /\ nkSt = [nkIn EXCEPT !.result = nkSt.result]

\* a strike refused only because a unit of a civilization that may not be
\* attacked stands inside the blast radius, off the target tile
C9_Witness ==
    /\ NukeDone /\ nkIn.entry = "mayUse" /\ nkSt.result = "false"
    /\ nkIn.nuke.tile # TargetTile /\ nkIn.visible
    /\ nkIn.tiles[2].unit.civ = "C" /\ C9_BlockingCiv("C")
    /\ \A t \in HitTiles : ~C9_BlockingCiv(nkIn.tiles[t].owner)
    /\ ~C9_BlockingCiv(nkIn.tiles[1].unit.civ)

\* C10: after NUKE by a unit with a nuclear-weapon strength and the
\* self-destruct unique that interception did not destroy, the firing unit
\* has been destroyed
C10_NukeSelfDestructs ==
    (/\ NukeDone /\ nkIn.entry = "NUKE"
     /\ nkIn.nuke.strength >= 0 /\ nkIn.tr.selfDestructs
     /\ nkSt.path # "shotDown") =>
        /\ nkSt.path = "detonated"
        /\ nkSt.nuke.destroyCalls >= 1

\* a self-destructing nuke that interception damaged but did not destroy,
\* standing outside its own blast, detonated and was destroyed once
C10_Witness ==
    /\ NukeDone /\ nkIn.entry = "NUKE" /\ nkSt.path = "detonated"
    /\ nkIn.nuke.strength >= 0 /\ nkIn.tr.selfDestructs
    /\ nkSt.iceptDmg > 0 /\ nkSt.nuke.health > 0
    /\ nkIn.nuke.tile = 3 /\ nkSt.nuke.destroyCalls = 1

\* AirInterception.air_sweep returned and no enemy unit could intercept the tile
C11_Case == BattleDone /\ bIn.tr.entry = "sweep" /\ bIn.tr.sweepInterceptor = "none"

\* C11 as stated: in that case attacks_this_turn went up by exactly 1, the
\* movement went down by 1 (or stayed, for a unit that moves like air units
\* or has none left), the only notification is "Nothing tried to intercept"
\* to the attacker's civilization, and no health changed
C11_SweepTakesOneMovement ==
    C11_Case =>
        /\ bSt.att.attacksThisTurn = bIn.att.attacksThisTurn + 1
        /\ \/ bSt.att.movement = bIn.att.movement - 1
           \/ bSt.att.movement = bIn.att.movement
                 /\ (bIn.tr.movesLikeAir \/ bIn.att.movement = 0)
        /\ bSt.notes = <<[to |-> bIn.att.civ, variant |-> "Nothing tried to intercept"]>>
        /\ bSt.att.health = bIn.att.health /\ bSt.def = bIn.def /\ bSt.icp = bIn.icp

\* C11 (amended): in that case attacks_this_turn went up by exactly 1; the
\* movement is 0 if the unit can neither move after attacking nor attack
\* again, else unchanged if it moves like air units, else one point less
\* (not below 0); the only notification is "Nothing tried to intercept" to
\* the attacker's civilization; and no health changed
C11_SweepUnopposed ==
    C11_Case =>
        /\ bSt.path = "sweep unopposed"
        /\ bSt.att.attacksThisTurn = bIn.att.attacksThisTurn + 1
        /\ bSt.att.movement =
              IF bIn.tr.canMoveAfter \/ bIn.tr.maxAttacks > bIn.att.attacksThisTurn + 1
              THEN IF bIn.tr.movesLikeAir THEN bIn.att.movement
                   ELSE Max(0, bIn.att.movement - 1)
              ELSE 0
        /\ bSt.notes = <<[to |-> bIn.att.civ, variant |-> "Nothing tried to intercept"]>>
        /\ bSt.att.health = bIn.att.health /\ bSt.def = bIn.def /\ bSt.icp = bIn.icp

\* an unopposed sweep by a unit with two movement points that cannot move
\* after attacking: both points are gone
C11_Witness ==
    /\ C11_Case /\ bIn.att.movement = 2 /\ bSt.att.movement = 0
    /\ ~bIn.tr.canMoveAfter /\ bIn.tr.maxAttacks = 1
    /\ bSt.att.attacksThisTurn = 1 /\ Len(bSt.notes) = 1

C13_Case ==
    /\ BattleDone /\ bSt.exchanges = 1 /\ bIn.tr.entry # "sweep"
    /\ IsRanged(bIn.att) /\ ~IsAirUnit(bIn.att)

\* C13: for an attacker that is ranged and not an air unit (a city
\* included) calculate_damage_to_attacker returns 0, whatever the defender
\* and whatever the damage formula would give
C13_RangedTakesNoDamage ==
    C13_Case => bSt.potAtt = 0 /\ bSt.dealt.defenderDealt = 0

\* a city and a ranged land unit attacked a military unit that the formula
\* would have let strike back
C13_Witness ==
    /\ C13_Case /\ bIn.tr.fa > 0 /\ ~IsCivilian(bIn.def) /\ ~bIn.def.isCity
    /\ bSt.potAtt = 0 /\ bSt.potDef = bIn.tr.fd

\* C14: for a civilian defender calculate_damage_to_defender returns the
\* fixed civilian damage, whatever the attacker and the damage formula
C14_CivilianFixedDamage ==
    (BattleDone /\ bSt.exchanges = 1 /\ bIn.tr.entry # "sweep" /\ IsCivilian(bIn.def)) =>
        bSt.potDef = DAMAGE_TO_CIVILIAN_UNIT

\* civilians were attacked by a city, whose formula value was 0, and by an
\* air unit, whose formula value was 1
C14_Witness ==
    /\ BattleDone /\ bSt.exchanges = 1 /\ IsCivilian(bIn.def)
    /\ bIn.tr.fd # DAMAGE_TO_CIVILIAN_UNIT
    /\ (bIn.att.isCity \/ IsAirUnit(bIn.att))
    /\ bSt.potDef = DAMAGE_TO_CIVILIAN_UNIT

\* C15: get_attacking_strength and get_defending_strength never return less
\* than 1, for every base strength and every set of modifiers, sums of
\* -100% or less included; the denominator of the ratio is at least 1
C15_StrengthAtLeastOne ==
    /\ dmg.stage # "idle" =>
        /\ dmg.hasAtt => dmg.attStr >= One
        /\ dmg.hasDef => dmg.defStr >= One
        /\ dmg.stage = "ratio" => dmg.ratioDen >= One

\* both strengths were computed from modifier sums of -100% or less and
\* positive base strengths, and the ratio was formed
C15_Witness ==
    /\ dmg.stage = "ratio"
    /\ dmg.attBase > 0 /\ dmg.defBase > 0
    /\ ModifiersToFinalBonus(dmg.attMods) < 0
    /\ ModifiersToFinalBonus(dmg.defMods) <= 0
    /\ dmg.attStr = One /\ dmg.ratioDen = One

\* Battle.attack ran to its end against a civilian defender
C16_Case ==
    /\ BattleDone /\ bSt.path = "full" /\ bSt.attackCalls = 1
    /\ IsCivilian(bIn.def)

C16_AttackerCapped == bIn.tr.defBarbarian /\ bIn.tr.attXpMaxed

C17_Case ==
    /\ BattleDone /\ bSt.path = "full" /\ bSt.attackCalls = 1 /\ bSt.exchanges = 1
    /\ ~bIn.att.isCity

\* the attacker's action is none of fortify, sleep, guard
C17_StatusCleared == bSt.att.action \notin {"Fortify", "Sleep", "Guard"}

\* C17 as stated: every such call adds exactly 1 to attacks_this_turn and
\* clears fortify/sleep/guard, the capture of a civilian with the attacker
\* moving onto its tile included
C17_AlwaysCountsAttack ==
    C17_Case =>
        /\ bSt.att.attacksThisTurn = bIn.att.attacksThisTurn + 1
        /\ C17_StatusCleared

\* the attacker ended on the tile of a civilian defender
C17_OnCivilianTile == IsCivilian(bSt.def) /\ bSt.att.tile = bSt.def.tile

\* C17: such a call adds exactly 1 to attacks_this_turn and clears
\* fortify/sleep/guard, unless the defender is a civilian and the attacker
\* ended on its tile: then attacks_this_turn is left as it was
C17_CountsAttackUnlessOnCivilianTile ==
    C17_Case =>
        IF C17_OnCivilianTile
        THEN bSt.att.attacksThisTurn = bIn.att.attacksThisTurn
        ELSE /\ bSt.att.attacksThisTurn = bIn.att.attacksThisTurn + 1
             /\ C17_StatusCleared

\* a melee unit captured a civilian, moved onto its tile, and its attack
\* was not counted
C17_Witness ==
    /\ C17_Case /\ C17_OnCivilianTile /\ IsMelee(bIn.att)
    /\ bIn.att.tile # bIn.def.tile
    /\ bSt.def.civ = bIn.att.civ
    /\ bSt.att.attacksThisTurn = bIn.att.attacksThisTurn

\* C18 as stated: within one Battle.attack call destroy() is invoked at most
\* once on the attacker's unit and at most once on any other unit, across
\* the raid, self-destruct, capture and conquest paths
C18_DestroyedAtMostOnce ==
    (BattleDone /\ bSt.attackCalls = 1) =>
        /\ bSt.att.destroyCalls <= bIn.att.destroyCalls + 1
        /\ bSt.def.destroyCalls <= bIn.def.destroyCalls + 1

\* a barbarian raider that also self-destructs survived the exchange and was
\* destroyed by the raid and again by the self-destruct step
C18_RaiderDestroyedTwice ==
    /\ BattleDone /\ bSt.attackCalls = 1 /\ bSt.raids = 1
    /\ bIn.tr.selfDestructs /\ bSt.att.health > 0
    /\ bSt.att.destroyCalls = bIn.att.destroyCalls + 2

\* a capture trigger fired, the captured unit was spawned, and a civilian
\* stood on the defeated unit's tile
C19_Case ==
    /\ capCall.called /\ capCall.spawnCalls = 1 /\ capCall.placed # "none"
    /\ capCall.civilianOnTile

C20_Case ==
    /\ BattleDone /\ bSt.path = "full" /\ bSt.attackCalls = 1 /\ bSt.exchanges = 1
    /\ bIn.tr.attBarbarian /\ ~bIn.att.isCity /\ IsMelee(bIn.att)
    /\ ~bIn.tr.cannotCaptureCities
    /\ bIn.def.isCity /\ bIn.def.health - bSt.dealt.attackerDealt = 1

\* C20: in that case the city is not conquered and keeps its owner, its
\* health is 2, its owner has lost min(200, gold) gold, and the attacking
\* unit has been destroyed
C20_BarbarianRaid ==
    C20_Case =>
        /\ bSt.conquerCalls = 0 /\ ~bSt.cityJustConquered
        /\ bSt.def.civ = bIn.def.civ
        /\ bSt.def.health = 2
        /\ bSt.gold = bIn.gold - Min(RansomCap, bIn.gold)
        /\ bSt.raids = 1
        /\ bSt.att.destroyCalls >= bIn.att.destroyCalls + 1

\* barbarians brought a city with 250 gold in the treasury down to 1 HP:
\* 200 gold taken, the city back at 2 HP, the raider destroyed
C20_Witness ==
    /\ C20_Case /\ bIn.def.health > 1 /\ bIn.gold > RansomCap
    /\ bSt.gold = bIn.gold - RansomCap
    /\ bSt.def.health = 2 /\ bSt.conquerCalls = 0
    /\ bSt.att.health > 0 /\ bSt.att.destroyCalls = 1

\* the civilizations NUKE must declare war on: not the attacker's, known to
\* it, not at war with it, and with territory or a unit in the blast radius
C21_ForcedWars ==
    {c \in NukeCivs :
        /\ nkIn.civs[c].known /\ ~nkIn.civs[c].atWar
        /\ \E t \in HitTiles : nkIn.tiles[t].owner = c \/ nkIn.tiles[t].unit.civ = c}

\* C21: when interception destroys the firing unit in transit, every forced
\* war declaration is still made, and nothing is detonated: the tiles in the
\* blast radius and what stands on them are as before, the attack is not
\* recorded, and no used-nuclear-weapons penalty is applied
C21_ShotDownStillDeclaresWar ==
    (NukeDone /\ nkIn.entry = "NUKE" /\ nkSt.path = "shotDown") =>
        /\ nkSt.warsDeclared = C21_ForcedWars
        /\ \A c \in C21_ForcedWars : nkSt.civs[c].atWar
        /\ nkSt.tiles = nkIn.tiles
        /\ nkSt.penalties = 0
        /\ nkSt.nuke.attacksSince = nkIn.nuke.attacksSince
        /\ nkSt.nuke.attacksThisTurn = nkIn.nuke.attacksThisTurn

\* the interceptor of one civilization shot the nuke down, and war was
\* declared on another civilization with a unit in the blast radius afterwards
C21_Witness ==
    /\ NukeDone /\ nkIn.entry = "NUKE" /\ nkSt.path = "shotDown"
    /\ ~IsDefeated(nkIn.nuke) /\ IsDefeated(nkSt.nuke)
    /\ nkSt.warsAfterShotDown # {}
    /\ nkSt.warsDeclared = C21_ForcedWars

\* both the barbarian-encampment trigger and the gain-from-defeating-unit
\* trigger match in the call's inputs
C22_BothMatch ==
    /\ IsEligible(capIn.elig)
    /\ capIn.enc.defenderBarbarian /\ capIn.enc.tileIsEncampment /\ Len(capIn.enc.uniques) > 0
    /\ capIn.def.attackerMelee /\ \E i \in 1..Len(capIn.def.uniques) : capIn.def.uniques[i].matches

\* C22: in one try_capture_military_unit call on an eligible defeated
\* defender in which both the encampment trigger and the
\* gain-from-defeating-unit trigger match, both triggers fire and the
\* attacker's civilization receives both payouts, whether or not the
\* prize-ships trigger fired before them
C22_AllTriggersEvaluated ==
    [][(~capCall.called /\ capCall'.called /\ C22_BothMatch) =>
          /\ capCall'.encampment /\ capCall'.defeating
          /\ capCall'.encampmentGold = SumSeq(capIn.enc.uniques)
          /\ capCall'.defeatingGold = MatchingGold(capIn.def.uniques)
          /\ capGold' = capGold + SumSeq(capIn.enc.uniques) + MatchingGold(capIn.def.uniques)]_vars

\* the prize-ships trigger fired first, and the encampment gold and the gold
\* for defeating the unit were both paid in the same call
C22_Witness ==
    /\ capCall.called /\ C22_BothMatch
    /\ capCall.prize /\ capCall.encampment /\ capCall.defeating
    /\ capCall.encampmentGold > 0 /\ capCall.defeatingGold > 0
    /\ capGold >= capCall.encampmentGold + capCall.defeatingGold

\* Battle.conquer_city has returned and nothing was decided afterwards
C23_Case == cq.stage = "conquered"

\* the calls conquer_city made, by disposition
C23_Destroyed == cq.calls.destroyCity = 1 /\ ~cq.city.exists
C23_PuppetThenAnnex ==
    /\ cq.calls.puppet = 1 /\ cq.calls.annex = 1 /\ cq.calls.automate = 0
    /\ cq.city.owner = "A" /\ ~cq.city.isPuppet
C23_Popup ==
    /\ cq.calls.popups = 1
    /\ cq.city.owner = "B" /\ cq.city.hasJustBeenConquered
C23_Automated == cq.calls.automate = 1

\* how many of the four dispositions a call ended in
C23_Dispositions ==
    (IF cq.calls.destroyCity > 0 THEN 1 ELSE 0)
    + (IF cq.calls.automate = 0 /\ cq.calls.puppet + cq.calls.annex + cq.calls.liberate > 0
       THEN 1 ELSE 0)
    + (IF cq.calls.popups > 0 THEN 1 ELSE 0)
    + (IF cq.calls.automate > 0 THEN 1 ELSE 0)

\* C23: a conquer_city call ends in exactly one disposition, in this order
\* of priority: barbarian or one-city-challenger attacker, the city is
\* destroyed; else the city is the original capital the attacker's
\* civilization founded, puppet then annex; else a human attacker outside full
\* auto-play, a CityConquered alert and no change of owner; else
\* automate_city_conquer decides
C23_OneDisposition ==
    C23_Case =>
        /\ C23_Dispositions = 1
        /\ IF cq.tr.barbarian \/ cq.tr.oneCityChallenger THEN C23_Destroyed
           ELSE IF cq.tr.originalCapital /\ cq.tr.foundingCiv = "A" THEN C23_PuppetThenAnnex
           ELSE IF cq.tr.human /\ ~cq.tr.fullAutoPlay THEN C23_Popup
           ELSE C23_Automated

\* a human one-city challenger conquered its own original capital: the city
\* was destroyed, and neither kept nor put to the player
C23_Witness ==
    /\ C23_Case /\ cq.tr.oneCityChallenger /\ ~cq.tr.barbarian
    /\ cq.tr.originalCapital /\ cq.tr.foundingCiv = "A"
    /\ cq.tr.human /\ ~cq.tr.fullAutoPlay
    /\ C23_Destroyed /\ cq.calls.puppet = 0 /\ cq.calls.popups = 0

\* C28: while has_just_been_conquered is set on the standing city,
\* contains_attackable_enemy returns false for its centre tile, for every
\* combatant
C28_NoTargetWhileJustConquered ==
    /\ (cq.stage # "idle" /\ cq.city.exists /\ cq.city.hasJustBeenConquered) =>
          \A civ \in ConquestCivs, atWar \in BOOLEAN, eb \in BOOLEAN, lb \in BOOLEAN :
              ~ContainsAttackableEnemy(cq, [NoQuery EXCEPT !.civ = civ, !.atWar = atWar,
                                                          !.embarkedBlocked = eb,
                                                          !.laterBlocked = lb])
    /\ (cq.stage # "idle" /\ cq.query.made /\ cq.query.flagged) => ~cq.query.result

\* between the conquest and the player's decision a combatant at war with
\* the city's owner, with nothing else in its way, asked and was refused
C28_Witness ==
    /\ cq.stage = "conquered" /\ cq.calls.popups = 1 /\ cq.city.hasJustBeenConquered
    /\ cq.query.made /\ cq.query.flagged
    /\ cq.query.civ # cq.city.owner /\ cq.query.atWar
    /\ ~cq.query.embarkedBlocked /\ ~cq.query.laterBlocked
    /\ ~cq.query.result

(***************************************************************************)
(* BarbarianManager and its encampments                                    *)
(***************************************************************************)
MaxSpawnedUnits == 1    \* largest Encampment.spawned_units reached
MaxEncampments == 2     \* number of Encampment objects ever created

\* Encampment.was_destroyed: the turns a destroyed encampment haunts its vicinity
GhostTurns == 15

\* the tile positions an encampment can stand on: one viable tile
CampPositions == {1}

\* random.randint(0, 4) of _reset_countdown: its two extremes
SpawnRolls == {0, 4}

\* the kinds of call the model tells apart afterwards
NoCampCall == "other"

\* Encampment(position): the dataclass defaults; id is the identity of the object
NewEncampment(id, position) ==
    [id |-> id, position |-> position, countdown |-> 0, spawnedUnits |-> -1,
     destroyed |-> FALSE]

\* Encampment._reset_countdown at standard speed with no difficulty delay
ResetCountdown(c, roll, raging) ==
    LET base == 8 + roll
        quick == IF raging THEN base \div 2 ELSE base
    IN  [c EXCEPT !.countdown = quick - Min(3, c.spawnedUnits)]

\* Encampment.update: the outcomes of one call (the spawn may fail)
EncampmentUpdate(c, raging) ==
    IF c.countdown > 0 THEN {[c EXCEPT !.countdown = @ - 1]}
    ELSE IF ~c.destroyed
    THEN {c} \cup
         IF c.spawnedUnits < MaxSpawnedUnits
         THEN {ResetCountdown([c EXCEPT !.spawnedUnits = @ + 1], roll, raging) :
                  roll \in SpawnRolls}
         ELSE {}
    ELSE {c}

\* Encampment.was_attacked without the destroyed test (the mutation of WasAttacked)
WasAttackedAlways(c) == [c EXCEPT !.countdown = @ \div 2]

\* Encampment.was_attacked
WasAttacked(c) ==
    IF ~c.destroyed THEN [c EXCEPT !.countdown = @ \div 2] ELSE c

\* Encampment.was_destroyed
WasDestroyed(c) ==
    IF ~c.destroyed THEN [c EXCEPT !.countdown = GhostTurns, !.destroyed = TRUE] ELSE c

\* the indexes of the encampments of the list standing on a position
CampsAt(encampments, position) ==
    {i \in 1..Len(encampments) : encampments[i].position = position}

\* BarbarianManager.camp_attacked: the first encampment on the position was attacked
CampAttacked(b, position) ==
    LET at == CampsAt(b.encampments, position)
    IN  IF at = {} THEN b
        ELSE LET i == CHOOSE j \in at : \A k \in at : j <= k
             IN  [b EXCEPT !.encampments[i] = WasAttacked(@)]

\* the first loop of update_encampments: camps without their improvement are
\* destroyed, ghosts whose countdown is 0 leave the list
GhostsDepart(b) ==
    LET checked == [i \in 1..Len(b.encampments) |->
                       IF ~b.tiles[b.encampments[i].position]
                       THEN WasDestroyed(b.encampments[i]) ELSE b.encampments[i]]
        Stays(c) == ~(c.destroyed /\ c.countdown = 0)
    IN  [b EXCEPT !.encampments = SelectSeq(checked, Stays)]

\* _place_barbarian_encampment: no new camp, or one on a tile clear of the listed camps
PlaceBarbarianEncampment(b) ==
    {b} \cup
    {[b EXCEPT !.encampments = Append(@, NewEncampment(b.nextId, p)),
               !.tiles[p] = TRUE, !.nextId = @ + 1] :
        p \in {q \in CampPositions :
                  CampsAt(b.encampments, q) = {} /\ b.nextId <= MaxEncampments}}

\* the last loop of update_encampments: update() on every encampment of the list
RECURSIVE UpdateAll(_, _)
UpdateAll(encampments, raging) ==
    IF encampments = <<>> THEN {<<>>}
    ELSE {<<c>> \o rest : c \in EncampmentUpdate(Head(encampments), raging),
                          rest \in UpdateAll(Tail(encampments), raging)}

\* BarbarianManager.update_encampments
UpdateEncampments(b) ==
    UNION {{[placed EXCEPT !.encampments = updated] :
               updated \in UpdateAll(placed.encampments, b.raging)} :
           placed \in PlaceBarbarianEncampment(GhostsDepart(b))}

\* after set_transients on a new game: no encampment yet
InitBm ==
    /\ \E raging \in BOOLEAN :
          bm = [stage |-> "run", encampments |-> <<>>,
                tiles |-> [p \in CampPositions |-> FALSE],
                raging |-> raging, nextId |-> 1, last |-> NoCampCall]
    /\ IdleButBm

\* a call of Encampment.update on one encampment of the list
EncampmentUpdateCall ==
    /\ bm.stage = "run"
    /\ \E i \in 1..Len(bm.encampments) :
          \E c \in EncampmentUpdate(bm.encampments[i], bm.raging) :
              bm' = [bm EXCEPT !.encampments[i] = c,
                               !.last = "other"]
    /\ UNCHANGED notBm

\* Battle.attack on a barbarian camp tile: BarbarianManager.camp_attacked
CampAttackedCall ==
    /\ bm.stage = "run"
    /\ \E p \in CampPositions :
          /\ CampsAt(bm.encampments, p) # {}
          /\ bm' = [CampAttacked(bm, p) EXCEPT !.last = "campAttacked"]
    /\ UNCHANGED notBm

\* a call of Encampment.was_destroyed on one encampment of the list
WasDestroyedCall ==
    /\ bm.stage = "run"
    /\ \E i \in 1..Len(bm.encampments) :
          bm' = [bm EXCEPT !.encampments[i] = WasDestroyed(@),
                           !.last = "other"]
    /\ UNCHANGED notBm

\* the improvement of a camp tile is removed from the map (the camp was cleared)
CampTileCleared ==
    /\ bm.stage = "run"
    /\ \E p \in CampPositions :
          /\ bm.tiles[p]
          /\ bm' = [bm EXCEPT !.tiles[p] = FALSE, !.last = "other"]
    /\ UNCHANGED notBm

\* a call of BarbarianManager.update_encampments
UpdateEncampmentsCall ==
    /\ bm.stage = "run"
    /\ \E b \in UpdateEncampments(bm) :
          bm' = [b EXCEPT !.last = "updateEncampments"]
    /\ UNCHANGED notBm

NextBm ==
    \/ EncampmentUpdateCall \/ CampAttackedCall \/ WasDestroyedCall
    \/ CampTileCleared \/ UpdateEncampmentsCall

SpecBm == InitBm /\ [][NextBm]_vars

\* the encampment object with an identity, while it is in the manager's list
InList(b, id) == \E i \in 1..Len(b.encampments) : b.encampments[i].id = id
CampById(b, id) ==
    b.encampments[CHOOSE i \in 1..Len(b.encampments) : b.encampments[i].id = id]

\* C29: once an encampment is destroyed, in every interleaving of
\* Encampment.update, was_attacked, was_destroyed and update_encampments its
\* destroyed flag stays true, its spawned_units no longer changes, was_attacked
\* leaves its countdown alone, and it leaves the manager's list at the first
\* update_encampments call that starts with its countdown at 0 and at no other step.
C29_DestroyedStaysDestroyed ==
    [][\A id \in 1..MaxEncampments :
          (InList(bm, id) /\ CampById(bm, id).destroyed) =>
             /\ InList(bm', id) =>
                   /\ CampById(bm', id).destroyed
                   /\ CampById(bm', id).spawnedUnits = CampById(bm, id).spawnedUnits
             /\ bm'.last = "campAttacked" =>
                   /\ InList(bm', id)
                   /\ CampById(bm', id).countdown = CampById(bm, id).countdown
             /\ IF bm'.last = "updateEncampments"
                THEN InList(bm', id) <=> (CampById(bm, id).countdown # 0)
                ELSE InList(bm', id)]_vars

\* a ghost has left the list, and a camp was attacked when every camp of the
\* list was a destroyed one still counting down
C29_Witness ==
    /\ \E id \in 1..MaxEncampments : id < bm.nextId /\ ~InList(bm, id)
    /\ bm.last = "campAttacked"
    /\ bm.encampments # <<>>
    /\ \A i \in 1..Len(bm.encampments) :
          bm.encampments[i].destroyed /\ bm.encampments[i].countdown > 0

(***************************************************************************)
(* CityPopulationManager                                                   *)
(***************************************************************************)
MaxPopulation == 4      \* largest population reached or asked for
MaxFood == 6            \* largest food surplus or deficit of one turn
MaxFoodStored == 40     \* largest food_stored reached

\* math.floor(n ** 1.8): the largest k with k^5 <= n^9
FloorPow18(n) == CHOOSE k \in 0..(n * n) : k^5 <= n^9 /\ (k + 1)^5 > n^9

\* get_food_to_next_population for a human player's city: the speed modifier
\* in percent, half as much again for a city-state, truncated
GetFoodToNextPopulation(m) ==
    LET foodRequired == 15 + 6 * (m.population - 1) + FloorPow18(m.population - 1)
    IN  IF m.isCityState THEN (foodRequired * m.speedPercent * 3) \div 200
        ELSE (foodRequired * m.speedPercent) \div 100

\* add_population: the change is floored so that one citizen stays
AddPopulation(m, count) ==
    [m EXCEPT !.population = @ + Max(count, 1 - m.population)]

\* set_population
SetPopulation(m, count) == AddPopulation(m, (-m.population) + count)

\* the starvation step of next_turn: food_stored += food; a citizen starves below 0
Starvation(m, food) ==
    LET fed == [m EXCEPT !.foodStored = @ + food]
    IN  IF fed.foodStored < 0
        THEN [(IF fed.population > 1 THEN AddPopulation(fed, -1) ELSE fed)
                 EXCEPT !.foodStored = 0]
        ELSE fed

\* the growth step of next_turn: the stored food pays for one citizen, a share is carried over
Growth(m, foodNeededToGrow) ==
    LET percentOfFoodCarriedOver == Min(m.carryOverPercent, 95)
        paid == [m EXCEPT !.foodStored =
                    (@ - foodNeededToGrow)
                    + (foodNeededToGrow * percentOfFoodCarriedOver) \div 100]
    IN  AddPopulation(paid, 1)

\* next_turn that grows under Avoid Growth too (the mutation of NextTurn)
NextTurnIgnoresAvoidGrowth(m, food) ==
    LET starved == Starvation(m, food)
        foodNeededToGrow == GetFoodToNextPopulation(starved)
    IN  IF starved.foodStored < foodNeededToGrow THEN starved
        ELSE IF m.nullifiesGrowth THEN starved
        ELSE Growth(starved, foodNeededToGrow)

\* CityPopulationManager.next_turn
NextTurn(m, food) ==
    LET starved == Starvation(m, food)
        foodNeededToGrow == GetFoodToNextPopulation(starved)
    IN  IF starved.foodStored < foodNeededToGrow THEN starved
        ELSE IF m.nullifiesGrowth THEN starved
        ELSE IF m.avoidGrowth THEN [starved EXCEPT !.foodStored = foodNeededToGrow]
        ELSE Growth(starved, foodNeededToGrow)

\* a new CityPopulationManager in a city with its settings and uniques
InitPm ==
    /\ \E speedPercent \in {67, 100}, isCityState \in BOOLEAN,
          nullifiesGrowth \in BOOLEAN, carryOverPercent \in {0, 25, 120} :
          pm = [stage |-> "run", population |-> 1, foodStored |-> 0,
                avoidGrowth |-> FALSE, nullifiesGrowth |-> nullifiesGrowth,
                carryOverPercent |-> carryOverPercent,
                speedPercent |-> speedPercent, isCityState |-> isCityState,
                last |-> "none"]
    /\ IdleButPm

\* a call of next_turn with the food surplus of the turn
NextTurnCall ==
    /\ pm.stage = "run"
    /\ \E food \in (-MaxFood)..MaxFood :
          LET after == NextTurn(pm, food)
          IN  /\ after.population <= MaxPopulation
              /\ after.foodStored <= MaxFoodStored
              /\ pm' = [after EXCEPT !.last = "next_turn"]
    /\ UNCHANGED notPm

\* a call of add_population
AddPopulationCall ==
    /\ pm.stage = "run"
    /\ \E count \in (-MaxPopulation)..MaxPopulation :
          LET after == AddPopulation(pm, count)
          IN  /\ after.population <= MaxPopulation
              /\ pm' = [after EXCEPT !.last = "add_population"]
    /\ UNCHANGED notPm

\* a call of set_population
SetPopulationCall ==
    /\ pm.stage = "run"
    /\ \E count \in (-MaxPopulation)..MaxPopulation :
          pm' = [SetPopulation(pm, count) EXCEPT !.last = "set_population"]
    /\ UNCHANGED notPm

\* the player switches the city's Avoid Growth setting
ToggleAvoidGrowth ==
    /\ pm.stage = "run"
    /\ pm' = [pm EXCEPT !.avoidGrowth = ~@, !.last = "avoid_growth"]
    /\ UNCHANGED notPm

NextPm == NextTurnCall \/ AddPopulationCall \/ SetPopulationCall \/ ToggleAvoidGrowth

SpecPm == InitPm /\ [][NextPm]_vars

C24_InterceptionDamage ==
    bPc = "intercepted" =>
       /\ bSt.iceptDmg <= bIn.att.health
       /\ bSt.att.health = bIn.att.health - bSt.iceptDmg
       /\ bSt.att.health >= 0
       /\ bSt.interceptorXp = (IF bSt.iceptDmg > 0 THEN 2 ELSE 0)
       /\ bSt.def = bIn.def
       /\ (bIn.tr.cannotBeIntercepted \/ ~bIn.tr.interceptor) =>
              /\ bSt.iceptDmg = 0
              /\ bSt.interceptorAttacks = 0
              /\ bSt = bIn

\* an interception whose computed damage was cut down to the one health
\* point the attacker had left
C24_Witness ==
    /\ bPc = "intercepted"
    /\ bIn.tr.interceptor /\ ~bIn.tr.cannotBeIntercepted
    /\ bIn.att.health = 1 /\ bSt.att.health = 0
    /\ bSt.iceptDmg = 1 /\ bSt.interceptorXp = 2 /\ bSt.interceptorAttacks = 1

\* Battle.attack on a city ran once, to its end
C25_Case == BattleDone /\ bSt.attackCalls = 1 /\ bIn.def.isCity

\* what post_battle_add_xp awards the attacker of a city
C25_NormalAward ==
    IF bIn.att.isCity \/ (bIn.tr.defBarbarian /\ bIn.tr.attXpMaxed) THEN 0
    ELSE IF IsAirUnit(bIn.att) THEN 4
    ELSE IF IsRanged(bIn.att) THEN 3
    ELSE 5

\* C25: an attack on a city that was at 1 HP before it leaves the experience
\* of attacker and defender as it was; an attack that ran through the damage
\* exchange on a city above 1 HP, reducing it to 1 HP or not, awards the
\* attacker the experience of post_battle_add_xp.
C25_NoXpForFinishingHit ==
    C25_Case =>
       /\ bSt.def.xp = bIn.def.xp
       /\ bIn.def.health = 1 => bSt.att.xp = bIn.att.xp
       /\ (bIn.def.health > 1 /\ bSt.path = "full") =>
              bSt.att.xp = bIn.att.xp + C25_NormalAward

\* a melee unit took the last health points above 1 from a city and gained its 5 XP
C25_WitnessReduced ==
    /\ C25_Case /\ bSt.path = "full"
    /\ ~bIn.att.isCity /\ ~IsRanged(bIn.att) /\ ~IsAirUnit(bIn.att)
    /\ bIn.def.health > 1 /\ bSt.dealt.attackerDealt = bIn.def.health - 1
    /\ bSt.att.xp = bIn.att.xp + 5

\* a melee unit attacked a city standing at 1 HP and gained nothing
C25_Witness ==
    /\ C25_Case /\ bSt.path = "full"
    /\ ~bIn.att.isCity /\ ~IsRanged(bIn.att) /\ ~IsAirUnit(bIn.att)
    /\ bIn.def.health = 1 /\ bSt.att.xp = bIn.att.xp

\* Nuke.NUKE detonated
C26_Case == NukeDone /\ nkIn.entry = "NUKE" /\ nkSt.path = "detonated"

\* the unit on hit tile t before and after the explosion, for one of the
\* damages the explosion can compute for that tile
C26_UnitOutcome(t) ==
    LET before == nkIn.tiles[t].unit
        after == nkSt.tiles[t].unit
    IN  \E damage \in ExplosionDamages(nkIn, t = TargetTile) :
           IF before.civilian
           THEN /\ after.health = before.health
                /\ after.destroyCalls = (IF before.health - damage <= 40 THEN 1 ELSE 0)
           ELSE after.health = Max(0, before.health - damage)

\* C26: the explosion destroys a civilian unit in the blast radius when its
\* health minus the computed damage is 40 or less and otherwise leaves it as
\* it was, its health unchanged in both cases; a unit that is no civilian
\* loses the computed damage.
C26_CiviliansDieOrAreSpared ==
    C26_Case =>
       \A t \in HitTiles : nkIn.tiles[t].unit.civ # "none" => C26_UnitOutcome(t)

\* a damaged civilian on the target tile was destroyed, a healthy one off
\* the target tile was spared with its health as it was
C26_Witness ==
    /\ C26_Case
    /\ nkIn.tiles[1].unit.civ # "none" /\ nkIn.tiles[1].unit.civilian
    /\ nkSt.tiles[1].unit.destroyCalls = 1
    /\ nkIn.tiles[2].unit.civ # "none" /\ nkIn.tiles[2].unit.civilian
    /\ nkSt.tiles[2].unit.destroyCalls = 0
    /\ nkSt.tiles[2].unit.health = nkIn.tiles[2].unit.health

\* the gold a barbarian raid took from the treasury of the city's owner
C27_Ransom == bIn.gold - bSt.gold

\* C27: a barbarian raid on a city never increases the gold of the city's
\* owner: the ransom removed is between 0 and 200 inclusive, whatever the
\* treasury held, a negative amount included.
C27_RansomWithinBounds ==
    (BattleDone /\ bSt.raids = 1) =>
        /\ bSt.gold <= bIn.gold
        /\ C27_Ransom >= 0 /\ C27_Ransom <= RansomCap

\* barbarians raided the city of an owner in debt, and the debt was gone
C27_RaidClearedDebt ==
    /\ BattleDone /\ bSt.raids = 1
    /\ bIn.gold < 0 /\ bSt.gold = 0 /\ C27_Ransom < 0

====
